---------------------------- MODULE Spec2Model ----------------------------
(***************************************************************************)
(* A model of infinitive.go (the later revision, lines 272-867): the       *)
(* mutation path putConfig, the projections getZonesConfig / getZNConfig,  *)
(* the state poller and the snoop callbacks, over the process-wide cache;  *)
(* holdTime, the struct getters, the snoop callbacks at the level of the   *)
(* pointers they publish, and the air handler callback of the early        *)
(* revision (lines 1-270) next to the later one.                           *)
(*                                                                         *)
(* Go strings are TLA+ strings (Len, SubSeq and \o act on them as on Go    *)
(* byte strings), bytes are 0..255, uint16 are 0..65535.  The tables       *)
(* TStatZoneParams and TStatCurrentParams are records holding the fields   *)
(* infinitive.go touches; per-zone arrays are functions over 0..7.         *)
(***************************************************************************)
EXTENDS Integers, Sequences, FiniteSets, TLC

VARIABLES
    call,       \* putConfig: arguments of the last call, or NoCall
    ret,        \* putConfig: result of the last call ("none" before any)
    sent,       \* putConfig: the table writes the last call handed to the bus
    wire,       \* every table write handed to the bus so far, in order
    acks,       \* what the bus reported for each write of wire, in order
    reads,      \* what the two ReadTable calls of a projection return
    view,       \* result of the last getZonesConfig / getZNConfig call
    pollpc,     \* statePoller: position in the loop body
    c1,         \* statePoller: locals c1, ok of the current tick
    ploc,       \* statePoller: locals zi (index into c1.Zones) and hum
    mon_i,      \* statePoller: cursor into monArray
    ticks,      \* statePoller: completed loop iterations
    cache,      \* the State Cache: key -> value, absent keys not in DOMAIN
    frames,     \* number of inbound frames the reader activity has dispatched
    lastFrame,  \* the frame dispatched last, or NoFrame
    pre,        \* the cache as it was when lastFrame was dispatched
    crashed,    \* TRUE once a snoop callback has panicked
    hist,       \* the frames dispatched so far, in order
    tables,     \* the thermostat's tables as they are now
    changes,    \* how many times the thermostat's tables have changed
    heap,       \* the structs behind the pointers: address -> struct
    ptr,        \* the pointer the cache holds under each structured key
    sb,         \* the snoop callback at work: its frame, local copy and position
    pb,         \* the poller's tick at work on the pointer-level cache
    obs,        \* what a reader of the cache got last: a pointer and its struct
    minutes,    \* holdTime: its argument
    held,       \* holdTime: its result, once called
    early,      \* the earlier revision (lines 1-270) fed the same frames: its
                \* cache, the cache before the last frame, and whether it panicked
    mainpc,     \* main: the statement it is at
    attached,   \* TRUE once attachSnoops has registered the callbacks
    opened,     \* TRUE once infinity.Open has succeeded: the reader is running
    polling     \* TRUE once statePoller has been started

vars == <<call, ret, sent, wire, acks, reads, view, pollpc, c1, ploc, mon_i, ticks,
          cache, frames, lastFrame, pre, crashed, hist, tables, changes,
          heap, ptr, sb, pb, obs, minutes, held, early,
          mainpc, attached, opened, polling>>

putVars   == <<call, ret, sent, wire, acks>>
viewVars  == <<reads, view>>
pollVars  == <<pollpc, c1, ploc, mon_i, ticks>>
snoopVars == <<frames, lastFrame, pre, crashed, hist>>
tstatVars == <<tables, changes>>
pubVars   == <<heap, ptr, sb, pb, obs>>
holdVars  == <<minutes, held>>
revVars   == <<early>>
mainVars  == <<mainpc, attached, opened, polling>>

---------------------------------------------------------------------------
(* Machine arithmetic on uint8 *)

NumZones == 8
ZoneIdx  == 0 .. (NumZones - 1)
Byte     == 0 .. 255

RECURSIVE Pow2(_)
Pow2(n) == IF n = 0 THEN 1 ELSE 2 * Pow2(n - 1)

\* bit k of x
Bit(x, k) == (x \div Pow2(k)) % 2

\* x & y on bytes
RECURSIVE BitAndFrom(_, _, _)
BitAndFrom(x, y, k) ==
    IF k > 7 THEN 0
    ELSE Pow2(k) * Bit(x, k) * Bit(y, k) + BitAndFrom(x, y, k + 1)
BitAnd(x, y) == BitAndFrom(x, y, 0)

\* a shift by the zone number instead of the zone index
Shl8ByZoneNumber(x, n) == (x * Pow2(n + 1)) % 256

\* uint8(x) << n
Shl8(x, n) == (x * Pow2(n)) % 256

\* x >> n
Shr(x, n) == x \div Pow2(n)

---------------------------------------------------------------------------
(* strconv *)

Digits == <<"0", "1", "2", "3", "4", "5", "6", "7", "8", "9">>
CharAt(s, i) == SubSeq(s, i, i)
IsDigit(c) == \E d \in 1 .. 10 : Digits[d] = c
DigitVal(c) == (CHOOSE d \in 1 .. 10 : Digits[d] = c) - 1

AllDigits(s) == \A i \in 1 .. Len(s) : IsDigit(CharAt(s, i))

RECURSIVE DecVal(_)
DecVal(s) ==
    IF Len(s) = 0 THEN 0
    ELSE 10 * DecVal(SubSeq(s, 1, Len(s) - 1)) + DigitVal(CharAt(s, Len(s)))

\* strconv.Atoi: an optional sign, then one or more decimal digits
Atoi(s) ==
    LET signed == Len(s) > 0 /\ CharAt(s, 1) \in {"+", "-"}
        body   == IF signed THEN SubSeq(s, 2, Len(s)) ELSE s
    IN  IF Len(body) = 0 \/ ~AllDigits(body)
        THEN [ok |-> FALSE, val |-> 0]
        ELSE [ok |-> TRUE,
              val |-> IF signed /\ CharAt(s, 1) = "-" THEN 0 - DecVal(body)
                      ELSE DecVal(body)]

\* strconv.ParseUint(s, 10, 8): no sign, one or more digits, at most 255
ParseUint8(s) ==
    IF Len(s) = 0 \/ ~AllDigits(s) THEN [ok |-> FALSE, val |-> 0]
    ELSE IF DecVal(s) > 255 THEN [ok |-> FALSE, val |-> 255]
    ELSE [ok |-> TRUE, val |-> DecVal(s)]

---------------------------------------------------------------------------
(* Enum translators (declared outside infinitive.go) *)

rawModeToString(m) ==
    CASE m = 0 -> "off"
      [] m = 1 -> "heat"
      [] m = 2 -> "cool"
      [] m = 3 -> "auto"
      [] m = 4 -> "electric"
      [] m = 5 -> "heatpump"
      [] OTHER -> "unknown"

rawFanModeToString(m) ==
    CASE m = 0 -> "auto"
      [] m = 1 -> "low"
      [] m = 2 -> "medium"
      [] m = 3 -> "high"
      [] OTHER -> "unknown"

rawActionToString(st) == IF st = 0 THEN "idle" ELSE "active"

stringModeToRaw(s) ==
    IF \E m \in 0 .. 5 : rawModeToString(m) = s
    THEN [ok |-> TRUE, val |-> CHOOSE m \in 0 .. 5 : rawModeToString(m) = s]
    ELSE [ok |-> FALSE, val |-> 0]

stringFanModeToRaw(s) ==
    IF \E m \in 0 .. 3 : rawFanModeToString(m) = s
    THEN [ok |-> TRUE, val |-> CHOOSE m \in 0 .. 3 : rawFanModeToString(m) = s]
    ELSE [ok |-> FALSE, val |-> 0]

---------------------------------------------------------------------------
(* Tables *)

ZeroArr == [zi \in ZoneIdx |-> 0]

\* TStatZoneParams{}
ZeroZoneParams ==
    [ZFanMode        |-> ZeroArr,
     ZoneHold        |-> 0,
     ZHeatSetpoint   |-> ZeroArr,
     ZCoolSetpoint   |-> ZeroArr,
     ZOvrdDuration   |-> ZeroArr,
     ZTargetHumidity |-> ZeroArr,
     ZName           |-> [zi \in ZoneIdx |-> ""]]

\* TStatCurrentParams{}
ZeroCurrentParams ==
    [ZCurrentTemp     |-> ZeroArr,
     ZCurrentHumidity |-> ZeroArr,
     OutdoorAirTemp   |-> 0,
     Mode             |-> 0]

---------------------------------------------------------------------------
(* putConfig *)

\* infinity.WriteTableZ(devTSTAT, params, uint8(zi), flags)
WriteTableZ(params, zi, flags) ==
    [op |-> "WriteTableZ", table |-> "TStatZoneParams",
     params |-> params, zone |-> zi % 256, flags |-> flags]

\* infinity.WriteTable(devTSTAT, p, flags)
WriteTable(p, flags) ==
    [op |-> "WriteTable", table |-> "TStatCurrentParams",
     params |-> p, flags |-> flags]

\* what WriteTable / WriteTableZ report to their caller
WriteOutcomes == {"Ok", "Timeout", "Refused"}

PutFail == [ret |-> FALSE, writes |-> <<>>]

\* the zone number passed where the 0-based index belongs
PutZonedByNumber(params, zi, flags) ==
    [ret |-> TRUE, writes |-> <<WriteTableZ(params, zi + 1, flags)>>]

\* lines 487-492: the zoned write and the return
PutZoned(params, zi, flags) ==
    [ret |-> TRUE,
     writes |-> IF flags # 0 THEN <<WriteTableZ(params, zi, flags)>> ELSE <<>>]

\* the switch on param for zn in 1..8 (lines 427-485)
PutZoneParam(zi, param, value) ==
    CASE param = "fanMode" ->
            LET m == stringFanModeToRaw(value)
            IN  IF ~m.ok THEN PutFail
                ELSE PutZoned([ZeroZoneParams EXCEPT !.ZFanMode[zi] = m.val], zi, 1)
      [] param = "coolSetpoint" ->
            LET v == ParseUint8(value)
            IN  IF ~v.ok THEN PutFail
                ELSE PutZoned([ZeroZoneParams EXCEPT !.ZCoolSetpoint[zi] = v.val], zi, 8)
      [] param = "heatSetpoint" ->
            LET v == ParseUint8(value)
            IN  IF ~v.ok THEN PutFail
                ELSE PutZoned([ZeroZoneParams EXCEPT !.ZHeatSetpoint[zi] = v.val], zi, 4)
      [] param = "hold" ->
            IF value \notin {"true", "false"} THEN PutFail
            ELSE PutZoned([ZeroZoneParams EXCEPT
                              !.ZoneHold = IF value = "true" THEN Shl8(1, zi) ELSE 0],
                          zi, 2)
      [] param = "preset" ->
            IF value \notin {"hold", "none"} THEN PutFail
            ELSE PutZoned([ZeroZoneParams EXCEPT
                              !.ZoneHold = IF value = "hold" THEN Shl8(1, zi) ELSE 0],
                          zi, 2)
      [] OTHER -> PutFail

\* the global write issued with the fan-mode mask
PutGlobalParamWrongMask(param, value) ==
    IF param = "mode"
    THEN LET m == stringModeToRaw(value)
         IN  IF ~m.ok THEN PutFail
             ELSE [ret |-> TRUE,
                   writes |-> <<WriteTable([ZeroCurrentParams EXCEPT !.Mode = m.val], 1)>>]
    ELSE PutFail

\* the switch on param for zn = 0 (lines 494-507)
PutGlobalParam(param, value) ==
    IF param = "mode"
    THEN LET m == stringModeToRaw(value)
         IN  IF ~m.ok THEN PutFail
             ELSE [ret |-> TRUE,
                   writes |-> <<WriteTable([ZeroCurrentParams EXCEPT !.Mode = m.val], 16)>>]
    ELSE PutFail

\* the zone range checked from below only
putConfigNoUpperBound(zone, param, value) ==
    LET a == Atoi(zone)
    IN  IF ~a.ok THEN PutFail
        ELSE IF a.val >= 1 THEN PutZoneParam(a.val - 1, param, value)
        ELSE IF a.val = 0 THEN PutGlobalParam(param, value)
        ELSE PutFail

\* putConfig(zone, param, value): the result and the writes it issues
putConfig(zone, param, value) ==
    LET a == Atoi(zone)
    IN  IF ~a.ok THEN PutFail
        ELSE IF a.val >= 1 /\ a.val <= 8 THEN PutZoneParam(a.val - 1, param, value)
        ELSE IF a.val = 0 THEN PutGlobalParam(param, value)
        ELSE PutFail


---------------------------------------------------------------------------
(* The mutation path under test: HTTP handlers call putConfig one at a    *)
(* time (the bus mutex serializes the writes).                             *)

MaxWire == 1

ZoneNames == {"1", "2", "3", "4", "5", "6", "7", "8"}

\* <<param, value>> pairs a zone accepts
ValidZonePairs ==
    ({"fanMode"} \X {"auto", "low", "medium", "high"})
    \cup ({"coolSetpoint"} \X {"74", "255"})
    \cup ({"heatSetpoint"} \X {"0", "68"})
    \cup ({"hold"} \X {"true", "false"})
    \cup ({"preset"} \X {"hold", "none"})

\* <<param, value>> pairs zone "0" accepts
ModePairs == {"mode"} \X {"off", "heat", "cool", "auto", "electric", "heatpump"}

\* pairs no zone in 1..8 accepts
BadZonePairs ==
    {<<"fanMode", "off">>, <<"fanMode", "">>, <<"coolSetpoint", "256">>,
     <<"coolSetpoint", "7x">>, <<"heatSetpoint", "256">>, <<"heatSetpoint", "-1">>,
     <<"hold", "hold">>, <<"hold", "">>, <<"preset", "true">>, <<"mode", "heat">>,
     <<"targetHumidity", "40">>}

\* pairs zone "0" does not accept
BadGlobalPairs ==
    {<<"fanMode", "auto">>, <<"hold", "true">>, <<"heatSetpoint", "68">>,
     <<"mode", "low">>, <<"mode", "">>, <<"preset", "none">>}

\* zone strings that name no zone
BadZones == {"9", "10", "-1", "x", ""}

\* the <<zone, <<param, value>>>> calls made
PutCalls ==
    (ZoneNames \X ValidZonePairs)
    \cup ({"0"} \X ModePairs)
    \cup ({"08", "+2"} \X {<<"fanMode", "low">>, <<"hold", "true">>})
    \cup ({"1", "8"} \X BadZonePairs)
    \cup ({"0", "-0"} \X BadGlobalPairs)
    \cup (BadZones \X {<<"fanMode", "low">>, <<"heatSetpoint", "68">>,
                       <<"mode", "heat">>, <<"hold", "true">>})

NoCall == [made |-> FALSE, zone |-> "", param |-> "", value |-> ""]

PutInit ==
    call = NoCall /\ ret = FALSE /\ sent = <<>> /\ wire = <<>> /\ acks = <<>>

\* the result made to follow what the bus write reported
PutReturnChecked(r, a) == r.ret /\ (r.writes = <<>> \/ a = "Ok")

\* lines 489 and 501 are call statements: what the write reports is dropped,
\* and lines 492 and 502 return true
PutReturn(r, a) == r.ret

\* a call of putConfig whose bus write, if it issues one, reports a
PutConfigOn(zone, param, value, a) ==
    /\ Len(wire) < MaxWire
    /\ LET r == putConfig(zone, param, value)
       IN  /\ call' = [made |-> TRUE, zone |-> zone, param |-> param, value |-> value]
           /\ ret'  = PutReturn(r, a)
           /\ sent' = r.writes
           /\ wire' = wire \o r.writes
           /\ acks' = acks \o [i \in 1 .. Len(r.writes) |-> a]
    /\ UNCHANGED <<viewVars, pollVars, cache, snoopVars>>
    /\ UNCHANGED <<tstatVars, holdVars, revVars, mainVars, pubVars>>

PutConfig(zone, param, value) ==
    \E a \in WriteOutcomes : PutConfigOn(zone, param, value, a)


---------------------------------------------------------------------------
(* Projections: holdTime, getZonesConfig, getZNConfig *)

RECURSIVE DecStr(_)
\* fmt "%d" of a non-negative integer
DecStr(n) == IF n < 10 THEN Digits[n + 1] ELSE DecStr(n \div 10) \o Digits[(n % 10) + 1]

\* fmt "%02d" of a non-negative integer
DecStr02(n) == IF n < 10 THEN "0" \o DecStr(n) ELSE DecStr(n)

\* the minutes printed with "%d"
holdTimeNoPad(ht) ==
    IF ht = 0 THEN "" ELSE DecStr(ht \div 60) \o ":" \o DecStr(ht % 60)

holdTime(ht) ==
    IF ht = 0 THEN "" ELSE DecStr(ht \div 60) \o ":" \o DecStr02(ht % 60)

\* the largest value of the parameter ht uint16
MaxUint16 == 65535

NoHeld == [done |-> FALSE, s |-> ""]

HoldInit ==
    /\ minutes = 0
    /\ held = NoHeld

\* holdTime called once on the argument drawn
HoldTime ==
    /\ ~held.done
    /\ held' = [done |-> TRUE, s |-> holdTime(minutes)]
    /\ UNCHANGED <<minutes, putVars, viewVars, pollVars, cache, snoopVars>>
    /\ UNCHANGED <<tstatVars, pubVars, revVars, mainVars>>

\* the cutset " \000" of bytes.Trim; "@" stands for the NUL byte
TrimCutset == {" ", "@"}

RECURSIVE TrimLeft(_)
TrimLeft(s) ==
    IF Len(s) > 0 /\ CharAt(s, 1) \in TrimCutset THEN TrimLeft(SubSeq(s, 2, Len(s))) ELSE s

RECURSIVE TrimRight(_)
TrimRight(s) ==
    IF Len(s) > 0 /\ CharAt(s, Len(s)) \in TrimCutset
    THEN TrimRight(SubSeq(s, 1, Len(s) - 1)) ELSE s

\* bytes.Trim(b, " \000")
Trim(s) == TrimRight(TrimLeft(s))

NilPtr == [nil |-> TRUE]

\* the bounds of the test moved inwards by one
ZoneActiveNarrow(t) == t > 1 /\ t < 254

\* the lower bound of the test made inclusive
ZoneActiveFromZero(t) == t >= 0 /\ t < 255

\* the test of line 380 on params.ZCurrentTemp[zi]
ZoneActive(t) == t > 0 /\ t < 255

\* the bitmap tested without the zone's mask
HoldBitUnmasked(cfg, zi) == cfg.ZoneHold # 0

\* (cfg.ZoneHold & (0x01 << zi)) != 0
HoldBit(cfg, zi) == BitAnd(cfg.ZoneHold, Shl8(1, zi)) # 0

PresetOf(hold) == IF hold THEN "hold" ELSE "none"

\* the slots read at the position in zoneArr instead of the zone index
ZoneEntryAtPos(cfg, params, zi, zc) ==
    [ZoneNumber       |-> (zi + 1) % 256,
     CurrentTemp      |-> params.ZCurrentTemp[zc],
     CurrentHumidity  |-> params.ZCurrentHumidity[zc],
     TargetHumidity   |-> 0,
     ZoneName         |-> Trim(cfg.ZName[zc]),
     FanMode          |-> rawFanModeToString(cfg.ZFanMode[zc]),
     Hold             |-> HoldBit(cfg, zi),
     Preset           |-> PresetOf(HoldBit(cfg, zi)),
     HeatSetpoint     |-> cfg.ZHeatSetpoint[zc],
     CoolSetpoint     |-> cfg.ZCoolSetpoint[zc],
     OvrdDuration     |-> holdTime(cfg.ZOvrdDuration[zc]),
     OvrdDurationMins |-> cfg.ZOvrdDuration[zc],
     OutdoorTemp      |-> 0,
     Mode             |-> "",
     Stage            |-> 0,
     Action           |-> "",
     RawMode          |-> 0]

\* the TStatZoneConfig stored into zoneArr[zc] for zone index zi (lines 381-399)
ZoneEntry(cfg, params, zi, zc) ==
    [ZoneNumber       |-> (zi + 1) % 256,
     CurrentTemp      |-> params.ZCurrentTemp[zi],
     CurrentHumidity  |-> params.ZCurrentHumidity[zi],
     TargetHumidity   |-> 0,
     ZoneName         |-> Trim(cfg.ZName[zi]),
     FanMode          |-> rawFanModeToString(cfg.ZFanMode[zi]),
     Hold             |-> HoldBit(cfg, zi),
     Preset           |-> PresetOf(HoldBit(cfg, zi)),
     HeatSetpoint     |-> cfg.ZHeatSetpoint[zi],
     CoolSetpoint     |-> cfg.ZCoolSetpoint[zi],
     OvrdDuration     |-> holdTime(cfg.ZOvrdDuration[zi]),
     OvrdDurationMins |-> cfg.ZOvrdDuration[zi],
     OutdoorTemp      |-> 0,
     Mode             |-> "",
     Stage            |-> 0,
     Action           |-> "",
     RawMode          |-> 0]

\* the loop of lines 379-403 from index zi on; acc is zoneArr[0:zc]
RECURSIVE ZonesFrom(_, _, _, _)
ZonesFrom(cfg, params, zi, acc) ==
    IF zi >= NumZones THEN acc
    ELSE IF ZoneActive(params.ZCurrentTemp[zi])
    THEN ZonesFrom(cfg, params, zi + 1, Append(acc, ZoneEntry(cfg, params, zi, Len(acc))))
    ELSE ZonesFrom(cfg, params, zi + 1, acc)

\* getZonesConfig(), given what its two ReadTable calls return
getZonesConfig(r) ==
    IF ~r.cfgOk THEN [ok |-> FALSE, val |-> NilPtr]
    ELSE IF ~r.parOk THEN [ok |-> FALSE, val |-> NilPtr]
    ELSE [ok  |-> TRUE,
          val |-> [Zones       |-> ZonesFrom(r.cfg, r.params, 0, <<>>),
                   OutdoorTemp |-> r.params.OutdoorAirTemp,
                   Mode        |-> rawModeToString(BitAnd(r.params.Mode, 15)),
                   Stage       |-> Shr(r.params.Mode, 5),
                   Action      |-> rawActionToString(Shr(r.params.Mode, 5)),
                   RawMode     |-> r.params.Mode]]

\* getZNConfig(zi), given what its two ReadTable calls return
getZNConfig(zi, r) ==
    IF zi < 0 \/ zi > 7 THEN [ok |-> FALSE, val |-> NilPtr]
    ELSE IF ~r.cfgOk THEN [ok |-> FALSE, val |-> NilPtr]
    ELSE IF ~r.parOk THEN [ok |-> FALSE, val |-> NilPtr]
    ELSE [ok  |-> TRUE,
          val |-> [ZoneNumber       |-> 0,
                   CurrentTemp      |-> r.params.ZCurrentTemp[zi],
                   CurrentHumidity  |-> r.params.ZCurrentHumidity[zi],
                   TargetHumidity   |-> r.cfg.ZTargetHumidity[zi],
                   ZoneName         |-> Trim(r.cfg.ZName[zi]),
                   FanMode          |-> rawFanModeToString(r.cfg.ZFanMode[zi]),
                   Hold             |-> HoldBit(r.cfg, zi),
                   Preset           |-> PresetOf(HoldBit(r.cfg, zi)),
                   HeatSetpoint     |-> r.cfg.ZHeatSetpoint[zi],
                   CoolSetpoint     |-> r.cfg.ZCoolSetpoint[zi],
                   OvrdDuration     |-> holdTime(r.cfg.ZOvrdDuration[zi]),
                   OvrdDurationMins |-> r.cfg.ZOvrdDuration[zi],
                   OutdoorTemp      |-> r.params.OutdoorAirTemp,
                   Mode             |-> rawModeToString(BitAnd(r.params.Mode, 15)),
                   Stage            |-> Shr(r.params.Mode, 5),
                   Action           |-> rawActionToString(Shr(r.params.Mode, 5)),
                   RawMode          |-> r.params.Mode]]

---------------------------------------------------------------------------
(* The thermostat tables the reads may return *)

MaxVariant == 1

DurList  == <<0, 75, 600, 5, 59, 60, 65535, 1439>>
NameList == <<"ZONE 1", "Up  @@@@", "  Den ", "@@@@", "", "Bed@", " A B ", "Attic">>
HoldVals == {0, 1, 16, 128, 85, 170, 127, 255}
TempVals == {0, 1, 72, 254, 255}
ModeList == <<0, 1, 34, 67, 165, 255, 36, 2>>

\* a TStatZoneParams with hold bitmap h; v varies the per-zone slots
MkCfg(h, v) ==
    [ZFanMode        |-> [zi \in ZoneIdx |-> (zi + v) % 5],
     ZoneHold        |-> h,
     ZHeatSetpoint   |-> [zi \in ZoneIdx |-> 60 + zi + v],
     ZCoolSetpoint   |-> [zi \in ZoneIdx |-> 72 + zi + 2 * v],
     ZOvrdDuration   |-> [zi \in ZoneIdx |-> DurList[((zi + v) % 8) + 1]],
     ZTargetHumidity |-> [zi \in ZoneIdx |-> 30 + 5 * zi + v],
     ZName           |-> [zi \in ZoneIdx |-> NameList[((zi + v) % 8) + 1]]]

\* a TStatCurrentParams: zone a at temperature x, zone (a+3) mod 8 at y, the
\* other even zone indexes at base and the other odd ones at 255 - base
MkParams(a, x, y, base) ==
    [ZCurrentTemp     |-> [zi \in ZoneIdx |->
                              IF zi = a THEN x
                              ELSE IF zi = (a + 3) % 8 THEN y
                              ELSE IF zi % 2 = 0 THEN base ELSE 255 - base],
     ZCurrentHumidity |-> [zi \in ZoneIdx |-> (7 * zi + x) % 101],
     OutdoorAirTemp   |-> (x + y) % 256,
     Mode             |-> ModeList[((a + x + base) % 8) + 1]]

CfgTables == {MkCfg(h, v) : h \in HoldVals, v \in 0 .. MaxVariant}

ParamsTables ==
    {MkParams(a, x, y, base) : a \in ZoneIdx, x \in TempVals, y \in TempVals,
                               base \in {0, 72}}

ReadOk(cfg, params) == [cfgOk |-> TRUE, cfg |-> cfg, parOk |-> TRUE, params |-> params]
\* the first ReadTable failed: the second is never issued
ReadCfgFailed == [cfgOk |-> FALSE, cfg |-> ZeroZoneParams,
                  parOk |-> FALSE, params |-> ZeroCurrentParams]
\* the second ReadTable failed
ReadParamsFailed(cfg) == [cfgOk |-> TRUE, cfg |-> cfg,
                          parOk |-> FALSE, params |-> ZeroCurrentParams]

ReadInputs ==
    {ReadOk(cfg, params) : cfg \in CfgTables, params \in ParamsTables}
    \cup {ReadCfgFailed}
    \cup {ReadParamsFailed(cfg) : cfg \in CfgTables}

NoView == [fn |-> "none", zi |-> 0, res |-> [ok |-> FALSE, val |-> NilPtr]]

ViewInit == view = NoView

\* each projection is applied once to the tables drawn
GetZonesConfig ==
    /\ view = NoView
    /\ view' = [fn |-> "getZonesConfig", zi |-> 0, res |-> getZonesConfig(reads)]
    /\ UNCHANGED <<putVars, reads, pollVars, cache, snoopVars>>
    /\ UNCHANGED <<tstatVars, holdVars, revVars, mainVars, pubVars>>

GetZNConfig(zi) ==
    /\ view = NoView
    /\ view' = [fn |-> "getZNConfig", zi |-> zi, res |-> getZNConfig(zi, reads)]
    /\ UNCHANGED <<putVars, reads, pollVars, cache, snoopVars>>
    /\ UNCHANGED <<tstatVars, holdVars, revVars, mainVars, pubVars>>


---------------------------------------------------------------------------
(* State Cache (declared outside infinitive.go): a keyed store, update is  *)
(* last-writer-wins per key and atomic per key.                            *)

CacheUpdate(c, key, value) == (key :> value) @@ c
CacheHas(c, key) == key \in DOMAIN c

EmptyCache == [k \in {} |-> 0]

---------------------------------------------------------------------------
(* statePoller *)

MaxTicks == 2

\* len(rawMonTable), lines 849-852
MonLen == 7

Pf == "mqtt/infinitive"

\* fmt.Sprintf("%s/zone/%d", pf, zoneNumber)
ZonePrefix(zoneNumber) == Pf \o "/zone/" \o DecStr(zoneNumber)

\* the eight cache.update calls of one iteration of the loop at lines 628-639
MirrorZone(c, z) ==
    LET zp == ZonePrefix(z.ZoneNumber)
        k1 == CacheUpdate(c,  zp \o "/currentTemp", z.CurrentTemp)
        k2 == CacheUpdate(k1, zp \o "/humidity", z.CurrentHumidity)
        k3 == CacheUpdate(k2, zp \o "/coolSetpoint", z.CoolSetpoint)
        k4 == CacheUpdate(k3, zp \o "/heatSetpoint", z.HeatSetpoint)
        k5 == CacheUpdate(k4, zp \o "/fanMode", z.FanMode)
        k6 == CacheUpdate(k5, zp \o "/hold", z.Hold)
        k7 == CacheUpdate(k6, zp \o "/overrideDuration", z.OvrdDuration)
    IN  CacheUpdate(k7, zp \o "/preset", z.Preset)

\* the updates of lines 628-639 for the zones from index zi on
RECURSIVE MirrorZones(_, _, _)
MirrorZones(c, zones, zi) ==
    IF zi >= Len(zones) THEN c
    ELSE MirrorZones(MirrorZone(c, zones[zi + 1]), zones, zi + 1)

\* lines 641-647
MirrorGlobal(c, t, hum) ==
    LET k0 == IF hum > 0 THEN CacheUpdate(c, Pf \o "/humidity", hum) ELSE c
        k1 == CacheUpdate(k0, Pf \o "/outdoorTemp", t.OutdoorTemp)
        k2 == CacheUpdate(k1, Pf \o "/mode", t.Mode)
    IN  CacheUpdate(k2, Pf \o "/rawMode", t.RawMode)

\* the tables the poller's reads return
PollCfgTables == {MkCfg(0, 0), MkCfg(2, 1), MkCfg(129, 0)}
PollParamsTables ==
    {MkParams(0, 1, 254, 0), MkParams(1, 72, 255, 72),
     MkParams(7, 2, 253, 0), MkParams(3, 0, 0, 0)}

NoC1 == [ok |-> FALSE, val |-> NilPtr]

PollInit ==
    /\ pollpc = "readCfg"
    /\ c1 = NoC1
    /\ ploc = [zi |-> 0, hum |-> 0]
    /\ mon_i = 0
    /\ ticks = 0

\* getZonesConfig, first ReadTable (lines 356-360), the bus answering with
\* one of the tables in cfgs or not at all
PollReadCfgFrom(cfgs) ==
    /\ pollpc = "readCfg"
    /\ \/ /\ \E cfg \in cfgs :
                reads' = [ReadCfgFailed EXCEPT !.cfgOk = TRUE, !.cfg = cfg]
          /\ pollpc' = "readParams"
       \/ /\ reads' = ReadCfgFailed
          /\ pollpc' = "probe"
    /\ c1' = IF reads'.cfgOk THEN c1 ELSE getZonesConfig(reads')
    /\ UNCHANGED <<ploc, mon_i, ticks, cache>>
    /\ UNCHANGED <<putVars, view, snoopVars>>
    /\ UNCHANGED <<tstatVars, holdVars, revVars, mainVars, pubVars>>

PollReadCfg == PollReadCfgFrom(PollCfgTables)

\* the poller going on to the cache update without testing ok
PollReadParamsUnchecked ==
    /\ pollpc = "readParams"
    /\ \/ \E params \in PollParamsTables :
                reads' = [reads EXCEPT !.parOk = TRUE, !.params = params]
       \/ reads' = ReadParamsFailed(reads.cfg)
    /\ c1' = getZonesConfig(reads')
    /\ pollpc' = "updTstat"
    /\ UNCHANGED <<ploc, mon_i, ticks, cache>>
    /\ UNCHANGED <<putVars, view, snoopVars>>
    /\ UNCHANGED <<tstatVars, holdVars, revVars, mainVars, pubVars>>

\* getZonesConfig, second ReadTable and the projection (lines 362-407), the
\* bus answering with one of the tables in pars or not at all
PollReadParamsFrom(pars) ==
    /\ pollpc = "readParams"
    /\ \/ \E params \in pars :
                reads' = [reads EXCEPT !.parOk = TRUE, !.params = params]
       \/ reads' = ReadParamsFailed(reads.cfg)
    /\ c1' = getZonesConfig(reads')
    /\ pollpc' = IF c1'.ok THEN "updTstat" ELSE "probe"
    /\ UNCHANGED <<ploc, mon_i, ticks, cache>>
    /\ UNCHANGED <<putVars, view, snoopVars>>
    /\ UNCHANGED <<tstatVars, holdVars, revVars, mainVars, pubVars>>

PollReadParams == PollReadParamsFrom(PollParamsTables)

\* "tstat" and every mirror key of the tick updated in one step
PollUpdateAll ==
    /\ pollpc = "updTstat"
    /\ LET zs  == c1.val.Zones
           hum == IF Len(zs) = 0 THEN 0 ELSE zs[Len(zs)].CurrentHumidity
       IN  cache' = MirrorGlobal(MirrorZones(CacheUpdate(cache, "tstat", c1.val), zs, 0),
                                 c1.val, hum)
    /\ ploc' = [zi |-> Len(c1.val.Zones), hum |-> 0]
    /\ pollpc' = "probe"
    /\ UNCHANGED <<reads, c1, mon_i, ticks>>
    /\ UNCHANGED <<putVars, view, snoopVars>>
    /\ UNCHANGED <<tstatVars, holdVars, revVars, mainVars, pubVars>>

\* line 625
PollUpdateTstat ==
    /\ pollpc = "updTstat"
    /\ cache' = CacheUpdate(cache, "tstat", c1.val)
    /\ ploc' = [zi |-> 0, hum |-> 0]
    /\ pollpc' = "mirror"
    /\ UNCHANGED <<reads, c1, mon_i, ticks>>
    /\ UNCHANGED <<putVars, view, snoopVars>>
    /\ UNCHANGED <<tstatVars, holdVars, revVars, mainVars, pubVars>>

\* one iteration of the loop at lines 628-639
PollMirrorZone ==
    /\ pollpc = "mirror"
    /\ ploc.zi < Len(c1.val.Zones)
    /\ cache' = MirrorZone(cache, c1.val.Zones[ploc.zi + 1])
    /\ ploc' = [zi |-> ploc.zi + 1, hum |-> c1.val.Zones[ploc.zi + 1].CurrentHumidity]
    /\ UNCHANGED <<reads, c1, pollpc, mon_i, ticks>>
    /\ UNCHANGED <<putVars, view, snoopVars>>
    /\ UNCHANGED <<tstatVars, holdVars, revVars, mainVars, pubVars>>

\* lines 641-647
PollMirrorGlobal ==
    /\ pollpc = "mirror"
    /\ ploc.zi >= Len(c1.val.Zones)
    /\ cache' = MirrorGlobal(cache, c1.val, ploc.hum)
    /\ pollpc' = "probe"
    /\ UNCHANGED <<reads, c1, ploc, mon_i, ticks>>
    /\ UNCHANGED <<putVars, view, snoopVars>>
    /\ UNCHANGED <<tstatVars, holdVars, revVars, mainVars, pubVars>>

\* lines 651-654: getRawData only logs what it read
PollProbe ==
    /\ pollpc = "probe"
    /\ mon_i' = IF MonLen > 0 THEN (mon_i + 1) % MonLen ELSE mon_i
    /\ pollpc' = "sleep"
    /\ UNCHANGED <<reads, c1, ploc, ticks, cache>>
    /\ UNCHANGED <<putVars, view, snoopVars>>
    /\ UNCHANGED <<tstatVars, holdVars, revVars, mainVars, pubVars>>

\* a poller that goes round again only after a tick that succeeded
PollLoopIfOk(n) ==
    /\ pollpc = "sleep"
    /\ c1.ok
    /\ ticks' = n
    /\ c1' = NoC1
    /\ pollpc' = "readCfg"
    /\ UNCHANGED <<reads, ploc, mon_i, cache>>
    /\ UNCHANGED <<putVars, view, snoopVars>>
    /\ UNCHANGED <<tstatVars, holdVars, revVars, mainVars, pubVars>>

\* line 656 and the next iteration, whose c1, ok are fresh; n is the new
\* count of iterations
PollLoop(n) ==
    /\ pollpc = "sleep"
    /\ ticks' = n
    /\ c1' = NoC1
    /\ pollpc' = "readCfg"
    /\ UNCHANGED <<reads, ploc, mon_i, cache>>
    /\ UNCHANGED <<putVars, view, snoopVars>>
    /\ UNCHANGED <<tstatVars, holdVars, revVars, mainVars, pubVars>>

\* the iterations counted up to MaxTicks, where the poller is left
PollSleep == ticks < MaxTicks /\ PollLoop(ticks + 1)

\* the iterations counted up to MaxTicks, the poller running on
PollSleepOn == PollLoop(IF ticks < MaxTicks THEN ticks + 1 ELSE ticks)


---------------------------------------------------------------------------
(* Snoop callbacks (attachSnoops).  A frame is its source address, its     *)
(* payload frame.data and the bytes lying behind the payload within the    *)
(* capacity of its buffer (a Go slice expression is bounded by the         *)
(* capacity, an index by the length).  A float32 is an exact fraction.     *)

RECURSIVE GCD(_, _)
GCD(a, b) == IF b = 0 THEN a ELSE GCD(b, a % b)

Rat(n, d) == LET g == GCD(n, d) IN [num |-> n \div g, den |-> d \div g]

ZeroAirHandler ==
    [BlowerRPM |-> 0, AirFlowCFM |-> 0, StaticPressure |-> Rat(0, 1),
     HeatStage |-> 0, ElecHeat |-> FALSE, Action |-> ""]
ZeroHeatPump == [CoilTemp |-> Rat(0, 1), OutsideTemp |-> Rat(0, 1), Stage |-> 0]
ZeroDamperPosition == [DamperPos |-> ZeroArr]

\* the cache after lines 845-847 of main
MainCache ==
    CacheUpdate(CacheUpdate(CacheUpdate(EmptyCache, "blower", ZeroAirHandler),
                            "heatpump", ZeroHeatPump),
                "damperpos", ZeroDamperPosition)

\* frame.data[3:]
Payload(frame) == SubSeq(frame.data, 4, Len(frame.data))
\* frame.data[0:3]
Prefix(frame) == SubSeq(frame.data, 1, 3)

\* data[lo:hi] is legal up to the capacity of data
SliceOk(frame, lo, hi) == lo <= hi /\ hi <= Len(Payload(frame)) + Len(frame.spare)
Slice(frame, lo, hi) == SubSeq(Payload(frame) \o frame.spare, lo + 1, hi)

\* the two bytes at the end of the slice
Uint16Last(b) == b[Len(b) - 1] * 256 + b[Len(b)]

\* the two bytes read low byte first
Uint16LE(b) == b[2] * 256 + b[1]

\* binary.BigEndian.Uint16
Uint16BE(b) == b[1] * 256 + b[2]

Outcome(c, panic) == [cache |-> c, panic |-> panic]

\* lines 592-617: the struct cached under the key, copied, if there is one
getAirHandler(c) ==
    IF CacheHas(c, "blower") THEN [ok |-> TRUE, val |-> c["blower"]]
    ELSE [ok |-> FALSE, val |-> ZeroAirHandler]

\* a getter that hands out a zero struct whatever the cache holds
getHeatPumpZero(c) == [ok |-> TRUE, val |-> ZeroHeatPump]

getHeatPump(c) ==
    IF CacheHas(c, "heatpump") THEN [ok |-> TRUE, val |-> c["heatpump"]]
    ELSE [ok |-> FALSE, val |-> ZeroHeatPump]

getDamperPosition(c) ==
    IF CacheHas(c, "damperpos") THEN [ok |-> TRUE, val |-> c["damperpos"]]
    ELSE [ok |-> FALSE, val |-> ZeroDamperPosition]

\* the callback of lines 672-691
SnoopHeatPump(c, frame) ==
    IF Len(frame.data) < 3 THEN Outcome(c, TRUE)
    ELSE IF ~getHeatPump(c).ok THEN Outcome(c, FALSE)
    ELSE IF Prefix(frame) = <<0, 62, 1>>
    THEN IF ~SliceOk(frame, 2, 4) THEN Outcome(c, TRUE)
         ELSE LET hp == [getHeatPump(c).val EXCEPT
                            !.CoilTemp    = Rat(Uint16BE(Slice(frame, 2, 4)), 16),
                            !.OutsideTemp = Rat(Uint16BE(Slice(frame, 0, 2)), 16)]
                  k1 == CacheUpdate(c, "heatpump", hp)
                  k2 == CacheUpdate(k1, "mqtt/infinitive/coilTemp", hp.CoilTemp)
              IN  Outcome(CacheUpdate(k2, "mqtt/infinitive/outsideTemp", hp.OutsideTemp),
                          FALSE)
    ELSE IF Prefix(frame) = <<0, 62, 2>>
    THEN IF Len(Payload(frame)) < 1 THEN Outcome(c, TRUE)
         ELSE LET hp == [getHeatPump(c).val EXCEPT !.Stage = Shr(Payload(frame)[1], 1)]
                  k1 == CacheUpdate(c, "heatpump", hp)
              IN  Outcome(CacheUpdate(k1, "mqtt/infinitive/acStage", hp.Stage), FALSE)
    ELSE Outcome(c, FALSE)

\* the switch with its first two cases exchanged
AirActionHeatFirst(data) ==
    IF BitAnd(data[1], 3) # 0 THEN "heating"
    ELSE IF BitAnd(data[3], 3) # 0 THEN "cooling"
    ELSE "idle"

\* the switch of lines 708-715
AirAction(data) ==
    IF BitAnd(data[3], 3) # 0 THEN "cooling"
    ELSE IF BitAnd(data[1], 3) # 0 THEN "heating"
    ELSE "idle"

\* line 706: the fraction of 65536 rounded to four decimals
StaticPressureOf(u) == Rat((u * 10000 + 32768) \div 65536, 10000)

\* the callback of lines 694-724
SnoopAirHandler(c, frame) ==
    IF Len(frame.data) < 3 THEN Outcome(c, TRUE)
    ELSE IF ~getAirHandler(c).ok THEN Outcome(c, FALSE)
    ELSE IF Prefix(frame) = <<0, 3, 6>>
    THEN IF ~SliceOk(frame, 1, 3) THEN Outcome(c, TRUE)
         ELSE LET ah == [getAirHandler(c).val EXCEPT !.BlowerRPM = Uint16BE(Slice(frame, 1, 3))]
                  k1 == CacheUpdate(c, "blower", ah)
              IN  Outcome(CacheUpdate(k1, "mqtt/infinitive/blowerRPM", ah.BlowerRPM), FALSE)
    ELSE IF Prefix(frame) = <<0, 3, 22>>
    THEN IF \/ Len(Payload(frame)) < 1
            \/ ~SliceOk(frame, 4, 6)
            \/ ~SliceOk(frame, 7, 9)
            \/ Len(Payload(frame)) < 3
         THEN Outcome(c, TRUE)
         ELSE LET data == Payload(frame)
                  ah == [getAirHandler(c).val EXCEPT
                            !.HeatStage      = data[1],
                            !.AirFlowCFM     = Uint16BE(Slice(frame, 4, 6)),
                            !.StaticPressure = StaticPressureOf(Uint16BE(Slice(frame, 7, 9))),
                            !.ElecHeat       = BitAnd(data[1], 3) # 0,
                            !.Action         = AirAction(data)]
                  k1 == CacheUpdate(c, "blower", ah)
                  k2 == CacheUpdate(k1, "mqtt/infinitive/heatStage", ah.HeatStage)
                  k3 == CacheUpdate(k2, "mqtt/infinitive/action", ah.Action)
                  k4 == CacheUpdate(k3, "mqtt/infinitive/airflowCFM", ah.AirFlowCFM)
              IN  Outcome(CacheUpdate(k4, "mqtt/infinitive/staticPressure",
                                      ah.StaticPressure), FALSE)
    ELSE Outcome(c, FALSE)

\* fmt.Sprintf("mqtt/infinitive/zone/%d/damperPos", zi+1)
DamperKey(zi) == "mqtt/infinitive/zone/" \o DecStr(zi + 1) \o "/damperPos"

\* uint(damperPos.DamperPos[zi]) * 100 / 15
DamperPercent(pos) == (pos * 100) \div 15

\* the marker byte tested at line 734
DamperUnknown == 255

\* the loop storing every byte, the unknown marker included
RECURSIVE DamperLoopNoSkip(_, _, _, _)
DamperLoopNoSkip(c, pos, data, zi) ==
    IF zi >= NumZones THEN [cache |-> c, pos |-> pos, panic |-> FALSE]
    ELSE IF zi >= Len(data) THEN [cache |-> c, pos |-> pos, panic |-> TRUE]
    ELSE DamperLoopNoSkip(CacheUpdate(c, DamperKey(zi), DamperPercent(data[zi + 1])),
                          [pos EXCEPT ![zi] = data[zi + 1]], data, zi + 1)

\* the loop of lines 733-738 from index zi on, over the local copy pos
RECURSIVE DamperLoop(_, _, _, _)
DamperLoop(c, pos, data, zi) ==
    IF zi >= NumZones THEN [cache |-> c, pos |-> pos, panic |-> FALSE]
    ELSE IF zi >= Len(data) THEN [cache |-> c, pos |-> pos, panic |-> TRUE]
    ELSE IF data[zi + 1] # DamperUnknown
    THEN DamperLoop(CacheUpdate(c, DamperKey(zi), DamperPercent(data[zi + 1])),
                    [pos EXCEPT ![zi] = data[zi + 1]], data, zi + 1)
    ELSE DamperLoop(c, pos, data, zi + 1)

\* the callback of lines 727-743
SnoopDamper(c, frame) ==
    IF Len(frame.data) < 3 THEN Outcome(c, TRUE)
    ELSE IF ~getDamperPosition(c).ok THEN Outcome(c, FALSE)
    ELSE IF Prefix(frame) = <<0, 3, 25>>
    THEN LET r == DamperLoop(c, getDamperPosition(c).val.DamperPos, Payload(frame), 0)
         IN  IF r.panic THEN Outcome(r.cache, TRUE)
             ELSE Outcome(CacheUpdate(r.cache, "damperpos", [DamperPos |-> r.pos]), FALSE)
    ELSE Outcome(c, FALSE)

\* the source ranges registered at lines 672, 694 and 727
HeatPumpLo   == 20480
HeatPumpHi   == 20991
AirHandlerLo == 16384
AirHandlerHi == 17151
DamperLo     == 24576
DamperHi     == 25087

\* the Snoop Dispatcher: every callback whose range holds frame.src, in the
\* order of registration; a panic ends the dispatch
Dispatch(c, frame) ==
    LET r1 == IF frame.src >= HeatPumpLo /\ frame.src <= HeatPumpHi
              THEN SnoopHeatPump(c, frame) ELSE Outcome(c, FALSE)
        r2 == IF r1.panic THEN r1
              ELSE IF frame.src >= AirHandlerLo /\ frame.src <= AirHandlerHi
              THEN SnoopAirHandler(r1.cache, frame) ELSE r1
    IN  IF r2.panic THEN r2
        ELSE IF frame.src >= DamperLo /\ frame.src <= DamperHi
        THEN SnoopDamper(r2.cache, frame) ELSE r2


---------------------------------------------------------------------------
(* The earlier revision of the air handler callback (lines 220-235), run    *)
(* next to the later one on the same frames.                                *)

\* AirHandler of lines 41-45
ZeroAirHandlerEarly == [BlowerRPM |-> 0, AirFlowCFM |-> 0, ElecHeat |-> FALSE]
ZeroHeatPumpEarly == [CoilTemp |-> Rat(0, 1), OutsideTemp |-> Rat(0, 1), Stage |-> 0]

\* the cache after lines 258-261 of the earlier main
MainCacheEarly ==
    CacheUpdate(CacheUpdate(EmptyCache, "blower", ZeroAirHandlerEarly),
                "heatpump", ZeroHeatPumpEarly)

\* the callback of lines 220-235
SnoopAirHandlerEarly(c, frame) ==
    IF Len(frame.data) < 3 THEN Outcome(c, TRUE)
    ELSE IF ~CacheHas(c, "blower") THEN Outcome(c, FALSE)
    ELSE IF Prefix(frame) = <<0, 3, 6>>
    THEN IF ~SliceOk(frame, 1, 5) THEN Outcome(c, TRUE)
         ELSE Outcome(CacheUpdate(c, "blower",
                  [c["blower"] EXCEPT !.BlowerRPM = Uint16BE(Slice(frame, 1, 5))]), FALSE)
    ELSE IF Prefix(frame) = <<0, 3, 22>>
    THEN IF ~SliceOk(frame, 4, 8) \/ Len(Payload(frame)) < 1 THEN Outcome(c, TRUE)
         ELSE Outcome(CacheUpdate(c, "blower",
                  [c["blower"] EXCEPT
                      !.AirFlowCFM = Uint16BE(Slice(frame, 4, 8)),
                      !.ElecHeat   = BitAnd(Payload(frame)[1], 3) # 0]), FALSE)
    ELSE Outcome(c, FALSE)

RevInit == early = [cache |-> MainCacheEarly, pre |-> EmptyCache, crashed |-> FALSE]

---------------------------------------------------------------------------
(* The inbound frames offered to the snoops *)

MaxFrames == 2

Frame(src, data, spare) == [src |-> src, data |-> data, spare |-> spare]
NoFrame == Frame(0, <<>>, <<>>)

DamperBytes == {0, 7, 15, 16, 255}

\* eight damper bytes: each zone at base, but zone a at x and zone (a+3) mod 8 at y
DamperData(a, x, y, base) ==
    [i \in 1 .. NumZones |->
        IF i - 1 = a THEN x ELSE IF i - 1 = (a + 3) % 8 THEN y ELSE base]

DamperFrames ==
    {Frame(24577, <<0, 3, 25>> \o DamperData(a, x, y, base), <<>>) :
        a \in {0, 7}, x \in DamperBytes, y \in {15, 255}, base \in {3, 255}}

OtherFrames ==
    {Frame(24833, <<0, 3, 25, 1, 2, 3, 4, 5, 6, 7, 8, 9>>, <<>>),
     Frame(24577, <<0, 3, 25, 5, 255, 6>>, <<7, 7, 7, 7, 7>>),
     Frame(24577, <<0, 3, 24, 9, 9, 9, 9, 9, 9, 9, 9>>, <<>>),
     Frame(24577, <<0, 3>>, <<>>),
     Frame(8193,  <<0, 3, 25, 9, 9, 9, 9, 9, 9, 9, 9>>, <<>>),
     Frame(20481, <<0, 62, 1, 1, 32, 0, 240>>, <<>>),
     Frame(20481, <<0, 62, 1, 0, 17, 255, 255>>, <<>>),
     Frame(20481, <<0, 62, 1, 1, 32>>, <<>>),
     Frame(20481, <<0, 62, 1, 1, 32>>, <<9, 9>>),
     Frame(20481, <<0, 62, 2, 4>>, <<>>),
     Frame(20481, <<0, 62, 2, 3>>, <<>>),
     Frame(20481, <<0, 62, 2>>, <<1>>),
     Frame(20481, <<0, 62, 3, 1, 2, 3, 4>>, <<>>),
     Frame(16385, <<0, 3, 6, 0, 1, 244>>, <<>>),
     Frame(16385, <<0, 3, 6, 9, 255, 255, 7, 7>>, <<>>),
     Frame(16385, <<0, 3, 6, 0>>, <<>>),
     Frame(16385, <<0, 3, 22, 0, 0, 0, 0, 1, 44, 0, 128, 0>>, <<>>),
     Frame(16385, <<0, 3, 22, 1, 0, 0, 0, 3, 32, 0, 64, 0>>, <<>>),
     Frame(16385, <<0, 3, 22, 2, 0, 1, 0, 3, 32, 0, 0, 7>>, <<>>),
     Frame(16385, <<0, 3, 22, 4, 0, 2, 0, 0, 0, 0, 255, 255>>, <<>>),
     Frame(16385, <<0, 3, 22, 1, 0>>, <<0, 0, 0, 0, 0, 0, 0>>),
     Frame(16385, <<0, 6, 22, 1, 0, 1>>, <<>>)}

SnoopFrames == DamperFrames \cup OtherFrames

SnoopInit ==
    /\ frames = 0
    /\ lastFrame = NoFrame
    /\ pre = EmptyCache
    /\ crashed = FALSE
    /\ hist = <<>>

\* the reader activity hands one CRC-valid frame to the dispatcher
OnFrame(f) ==
    /\ ~crashed
    /\ frames < MaxFrames
    /\ LET r == Dispatch(cache, f)
       IN  /\ cache' = r.cache
           /\ crashed' = r.panic
    /\ frames' = frames + 1
    /\ lastFrame' = f
    /\ hist' = Append(hist, f)
    /\ pre' = cache
    /\ UNCHANGED <<putVars, viewVars, pollVars>>
    /\ UNCHANGED <<tstatVars, holdVars, revVars, mainVars, pubVars>>

---------------------------------------------------------------------------
(* The cache at the level of pointers.  cache.update stores a pointer for   *)
(* the structured keys; heap holds the structs, ptr the pointer each key    *)
(* holds, and cache keeps the struct each pointer pointed at when it was    *)
(* stored.  The callbacks and the poller run one statement at a time.       *)

MaxHeap == 5

StructKeys == {"tstat", "blower", "heatpump", "damperpos"}

\* main, lines 842-847: three zero structs and their pointers
MainHeap == <<ZeroAirHandler, ZeroHeatPump, ZeroDamperPosition>>
MainPtr == ("blower" :> 1) @@ ("heatpump" :> 2) @@ ("damperpos" :> 3)

\* a getter handing out the cached pointer itself
LocalAlias(h, a) == [heap |-> h, addr |-> a]

\* getAirHandler, getHeatPump, getDamperPosition return *tb: the callback's
\* local variable is a fresh struct holding a copy
LocalCopy(h, a) == [heap |-> Append(h, h[a]), addr |-> Len(h) + 1]

OpSet(field, value) == [op |-> "set", field |-> field, zi |-> 0, value |-> value]
OpSetPos(zi, value) == [op |-> "set", field |-> "DamperPos", zi |-> zi, value |-> value]
OpUpdate(key, value) == [op |-> "update", field |-> key, zi |-> 0, value |-> value]
OpPublish(key) == [op |-> "publish", field |-> key, zi |-> 0, value |-> 0]

\* the statements of the loop of lines 733-738 from index zi on
RECURSIVE DamperOps(_, _)
DamperOps(data, zi) ==
    IF zi >= NumZones THEN <<>>
    ELSE IF data[zi + 1] # DamperUnknown
    THEN <<OpSetPos(zi, data[zi + 1]),
           OpUpdate(DamperKey(zi), DamperPercent(data[zi + 1]))>> \o DamperOps(data, zi + 1)
    ELSE DamperOps(data, zi + 1)

\* the cache key whose struct the callback for frame works on
SnoopKey(frame) ==
    IF frame.src >= HeatPumpLo /\ frame.src <= HeatPumpHi THEN "heatpump"
    ELSE IF frame.src >= AirHandlerLo /\ frame.src <= AirHandlerHi THEN "blower"
    ELSE "damperpos"

\* the statements a callback executes on a frame long enough for its decoder,
\* in the order of lines 676-689, 698-722 and 732-741
SnoopOps(frame) ==
    LET data == Payload(frame)
    IN  IF SnoopKey(frame) = "heatpump" /\ Prefix(frame) = <<0, 62, 1>>
        THEN LET coil == Rat(Uint16BE(Slice(frame, 2, 4)), 16)
                 out  == Rat(Uint16BE(Slice(frame, 0, 2)), 16)
             IN  <<OpSet("CoilTemp", coil), OpSet("OutsideTemp", out),
                   OpPublish("heatpump"),
                   OpUpdate("mqtt/infinitive/coilTemp", coil),
                   OpUpdate("mqtt/infinitive/outsideTemp", out)>>
        ELSE IF SnoopKey(frame) = "heatpump" /\ Prefix(frame) = <<0, 62, 2>>
        THEN <<OpSet("Stage", Shr(data[1], 1)), OpPublish("heatpump"),
               OpUpdate("mqtt/infinitive/acStage", Shr(data[1], 1))>>
        ELSE IF SnoopKey(frame) = "blower" /\ Prefix(frame) = <<0, 3, 6>>
        THEN <<OpSet("BlowerRPM", Uint16BE(Slice(frame, 1, 3))), OpPublish("blower"),
               OpUpdate("mqtt/infinitive/blowerRPM", Uint16BE(Slice(frame, 1, 3)))>>
        ELSE IF SnoopKey(frame) = "blower" /\ Prefix(frame) = <<0, 3, 22>>
        THEN LET cfm == Uint16BE(Slice(frame, 4, 6))
                 sp  == StaticPressureOf(Uint16BE(Slice(frame, 7, 9)))
             IN  <<OpSet("HeatStage", data[1]), OpSet("AirFlowCFM", cfm),
                   OpSet("StaticPressure", sp),
                   OpSet("ElecHeat", BitAnd(data[1], 3) # 0),
                   OpSet("Action", AirAction(data)),
                   OpPublish("blower"),
                   OpUpdate("mqtt/infinitive/heatStage", data[1]),
                   OpUpdate("mqtt/infinitive/action", AirAction(data)),
                   OpUpdate("mqtt/infinitive/airflowCFM", cfm),
                   OpUpdate("mqtt/infinitive/staticPressure", sp)>>
        ELSE IF SnoopKey(frame) = "damperpos" /\ Prefix(frame) = <<0, 3, 25>>
        THEN DamperOps(data, 0) \o <<OpPublish("damperpos")>>
        ELSE <<>>

\* frames long enough for their decoders
PubFrames ==
    {Frame(20481, <<0, 62, 1, 1, 32, 0, 240>>, <<>>),
     Frame(20481, <<0, 62, 2, 4>>, <<>>),
     Frame(16385, <<0, 3, 6, 0, 1, 244>>, <<>>),
     Frame(16385, <<0, 3, 22, 2, 0, 1, 0, 3, 32, 0, 64, 0>>, <<>>),
     Frame(24577, <<0, 3, 25, 15, 255, 255, 255, 255, 255, 255, 7>>, <<>>),
     Frame(16385, <<0, 6, 22, 1, 0, 1>>, <<>>)}

\* the reads of the poller's ticks: both succeed
PubReads ==
    {ReadOk(MkCfg(2, 1), MkParams(0, 1, 254, 0)),
     ReadOk(MkCfg(0, 0), MkParams(1, 72, 255, 72))}

SbIdle == [pc |-> "idle", key |-> "", addr |-> 0, todo |-> <<>>]
PbIdle == [pc |-> "idle", addr |-> 0, val |-> NilPtr]
NoObs  == [key |-> "", addr |-> 0, val |-> NilPtr]

PubInit ==
    /\ heap = MainHeap
    /\ ptr = MainPtr
    /\ sb = SbIdle
    /\ pb = PbIdle
    /\ obs = NoObs

\* lines 673-674, 695-696, 729-730: the callback is entered with frame f and
\* takes its local copy
SnoopEnter(f) ==
    /\ sb.pc = "idle"
    /\ Len(heap) < MaxHeap
    /\ LET key == SnoopKey(f)
           l   == LocalCopy(heap, ptr[key])
       IN  /\ heap' = l.heap
           /\ sb' = [pc |-> "run", key |-> key, addr |-> l.addr, todo |-> SnoopOps(f)]
    /\ frames' = frames + 1
    /\ lastFrame' = f
    /\ hist' = Append(hist, f)
    /\ pre' = cache
    /\ UNCHANGED <<crashed, ptr, pb, obs, cache>>
    /\ UNCHANGED <<putVars, viewVars, pollVars, tstatVars, holdVars, revVars, mainVars>>

\* one assignment to a field of the local struct
SnoopAssign ==
    /\ sb.pc = "run" /\ sb.todo # <<>> /\ Head(sb.todo).op = "set"
    /\ LET o == Head(sb.todo)
       IN  heap' = [heap EXCEPT ![sb.addr] =
                       IF o.field = "DamperPos"
                       THEN [@ EXCEPT !.DamperPos[o.zi] = o.value]
                       ELSE [@ EXCEPT ![o.field] = o.value]]
    /\ sb' = [sb EXCEPT !.todo = Tail(@)]
    /\ UNCHANGED <<ptr, pb, obs, cache>>
    /\ UNCHANGED <<putVars, viewVars, pollVars, snoopVars, tstatVars, holdVars, revVars, mainVars>>

\* cache.update(key, &local): lines 681, 687, 701, 717, 740
SnoopPublish ==
    /\ sb.pc = "run" /\ sb.todo # <<>> /\ Head(sb.todo).op = "publish"
    /\ ptr' = [ptr EXCEPT ![sb.key] = sb.addr]
    /\ cache' = CacheUpdate(cache, sb.key, heap[sb.addr])
    /\ sb' = [sb EXCEPT !.todo = Tail(@)]
    /\ UNCHANGED <<heap, pb, obs>>
    /\ UNCHANGED <<putVars, viewVars, pollVars, snoopVars, tstatVars, holdVars, revVars, mainVars>>

\* cache.update of a flat mirror key
SnoopMirror ==
    /\ sb.pc = "run" /\ sb.todo # <<>> /\ Head(sb.todo).op = "update"
    /\ cache' = CacheUpdate(cache, Head(sb.todo).field, Head(sb.todo).value)
    /\ sb' = [sb EXCEPT !.todo = Tail(@)]
    /\ UNCHANGED <<heap, ptr, pb, obs>>
    /\ UNCHANGED <<putVars, viewVars, pollVars, snoopVars, tstatVars, holdVars, revVars, mainVars>>

\* the callback returns
SnoopReturn ==
    /\ sb.pc = "run" /\ sb.todo = <<>>
    /\ sb' = SbIdle
    /\ UNCHANGED <<heap, ptr, pb, obs, cache>>
    /\ UNCHANGED <<putVars, viewVars, pollVars, snoopVars, tstatVars, holdVars, revVars, mainVars>>

\* getZonesConfig, lines 356-374: both reads succeed and tstat is built with
\* its scalar fields, Zones still nil
PubPollBuild ==
    /\ pb.pc = "idle"
    /\ Len(heap) < MaxHeap
    /\ \E r \in PubReads :
          LET v == getZonesConfig(r).val
          IN  /\ heap' = Append(heap, [v EXCEPT !.Zones = <<>>])
              /\ pb' = [pc |-> "zones", addr |-> Len(heap) + 1, val |-> v]
    /\ UNCHANGED <<ptr, sb, obs, cache>>
    /\ UNCHANGED <<putVars, viewVars, pollVars, snoopVars, tstatVars, holdVars, revVars, mainVars>>

\* line 405: tstat.Zones = zoneArr[0:zc]
PubPollZones ==
    /\ pb.pc = "zones"
    /\ heap' = [heap EXCEPT ![pb.addr].Zones = pb.val.Zones]
    /\ pb' = [pb EXCEPT !.pc = "update"]
    /\ UNCHANGED <<ptr, sb, obs, cache>>
    /\ UNCHANGED <<putVars, viewVars, pollVars, snoopVars, tstatVars, holdVars, revVars, mainVars>>

\* line 625: cache.update("tstat", c1)
PubPollPublish ==
    /\ pb.pc = "update"
    /\ ptr' = CacheUpdate(ptr, "tstat", pb.addr)
    /\ cache' = CacheUpdate(cache, "tstat", heap[pb.addr])
    /\ pb' = [pb EXCEPT !.pc = "mirror"]
    /\ UNCHANGED <<heap, sb, obs>>
    /\ UNCHANGED <<putVars, viewVars, pollVars, snoopVars, tstatVars, holdVars, revVars, mainVars>>

\* lines 628-647, read through the published pointer, and the rest of the tick
PubPollMirror ==
    /\ pb.pc = "mirror"
    /\ LET t   == heap[pb.addr]
           hum == IF Len(t.Zones) = 0 THEN 0 ELSE t.Zones[Len(t.Zones)].CurrentHumidity
       IN  cache' = MirrorGlobal(MirrorZones(cache, t.Zones, 0), t, hum)
    /\ pb' = PbIdle
    /\ UNCHANGED <<heap, ptr, sb, obs>>
    /\ UNCHANGED <<putVars, viewVars, pollVars, snoopVars, tstatVars, holdVars, revVars, mainVars>>

\* a reader: cache.get(key) and the struct behind the pointer (lines 592-617);
\* one reader is followed, reading once at any moment
PubGet(key) ==
    /\ obs = NoObs
    /\ CacheHas(ptr, key)
    /\ obs' = [key |-> key, addr |-> ptr[key], val |-> heap[ptr[key]]]
    /\ UNCHANGED <<heap, ptr, sb, pb, cache>>
    /\ UNCHANGED <<putVars, viewVars, pollVars, snoopVars, tstatVars, holdVars, revVars, mainVars>>

---------------------------------------------------------------------------
(* The thermostat whose tables the poller reads *)

MaxChanges == 1

\* the tables the thermostat may hold
RepairTables ==
    {[cfg |-> MkCfg(0, 0), params |-> MkParams(3, 0, 0, 0)],
     [cfg |-> MkCfg(2, 1), params |-> MkParams(0, 1, 254, 0)],
     [cfg |-> MkCfg(129, 0), params |-> MkParams(1, 72, 255, 72)]}

TStatInit ==
    /\ tables = [cfg |-> MkCfg(0, 0), params |-> MkParams(3, 0, 0, 0)]
    /\ changes = 0

\* the thermostat's state changes
TablesChange ==
    /\ changes < MaxChanges
    /\ \E t \in RepairTables \ {tables} : tables' = t
    /\ changes' = changes + 1
    /\ UNCHANGED <<putVars, viewVars, pollVars, cache, snoopVars, holdVars, revVars, mainVars, pubVars>>

\* the poller's reads return the thermostat's tables as they are, if they
\* return at all
RepairReadCfg == PollReadCfgFrom({tables.cfg})
RepairReadParams == PollReadParamsFrom({tables.params})

\* air handler frames for the two revisions: blower frames with the bytes
\* b1 b2 after a first byte, followed by a tail, and status frames
BlowerTails == {<<>>, <<7>>, <<7, 9>>, <<1, 2, 3>>}
BlowerFrames ==
    {Frame(16385, <<0, 3, 6, 9, b1, b2>> \o t, <<>>) :
        b1 \in {0, 1, 255}, b2 \in {0, 244}, t \in BlowerTails}
    \cup {Frame(16385, <<0, 3, 6, 0, 1, 244>>, <<5, 5>>),
          Frame(16385, <<0, 3, 22, 1, 0, 0, 0, 3, 32, 0, 64, 0>>, <<>>),
          Frame(16385, <<0, 3, 22, 2, 0, 1, 0, 1, 44, 0, 0, 7>>, <<>>),
          Frame(16385, <<0, 6, 22, 1, 0, 1>>, <<>>)}

\* the reader of each revision hands frame f to its air handler callback
OnFrameBoth(f) ==
    /\ ~crashed /\ ~early.crashed
    /\ frames < MaxFrames
    /\ LET r == Dispatch(cache, f)
           e == SnoopAirHandlerEarly(early.cache, f)
       IN  /\ cache' = r.cache
           /\ crashed' = r.panic
           /\ early' = [cache |-> e.cache, pre |-> early.cache, crashed |-> e.panic]
    /\ frames' = frames + 1
    /\ lastFrame' = f
    /\ hist' = Append(hist, f)
    /\ pre' = cache
    /\ UNCHANGED <<putVars, viewVars, pollVars, tstatVars, holdVars, pubVars>>
    /\ UNCHANGED mainVars

---------------------------------------------------------------------------
(* main, lines 844-866: the statements that set up the cache, the snoops,   *)
(* the serial link and the pollers, one step each.                          *)

\* the callbacks registered and the link opened before the typed keys exist
MainOrderSnoopsFirst ==
    <<"attach", "open", "updBlower", "updHeatPump", "updDamperPos",
      "goPollers", "serve">>

\* the order of the statements: lines 845, 846, 847, 854, 855, 864-865, 866
MainOrder ==
    <<"updBlower", "updHeatPump", "updDamperPos", "attach", "open",
      "goPollers", "serve">>

\* the statement after pc
MainAfter(pc) ==
    LET i == CHOOSE j \in 1 .. Len(MainOrder) : MainOrder[j] = pc
    IN  IF i < Len(MainOrder) THEN MainOrder[i + 1] ELSE pc

\* main at its first statement: nothing cached, attached, opened or started
MainInit ==
    /\ mainpc = MainOrder[1]
    /\ attached = FALSE
    /\ opened = FALSE
    /\ polling = FALSE

\* main at webserver(*httpPort), line 866
MainDone ==
    /\ mainpc = "serve"
    /\ attached = TRUE
    /\ opened = TRUE
    /\ polling = TRUE

\* cache.update(key, new(T)) at lines 845-847
MainUpdate(pc, key, zero) ==
    /\ mainpc = pc
    /\ cache' = CacheUpdate(cache, key, zero)
    /\ mainpc' = MainAfter(pc)
    /\ UNCHANGED <<attached, opened, polling>>
    /\ UNCHANGED <<putVars, viewVars, pollVars, snoopVars>>
    /\ UNCHANGED <<tstatVars, holdVars, revVars, pubVars>>

MainUpdateBlower    == MainUpdate("updBlower", "blower", ZeroAirHandler)
MainUpdateHeatPump  == MainUpdate("updHeatPump", "heatpump", ZeroHeatPump)
MainUpdateDamperPos == MainUpdate("updDamperPos", "damperpos", ZeroDamperPosition)

\* attachSnoops(), line 854
MainAttach ==
    /\ mainpc = "attach"
    /\ attached' = TRUE
    /\ mainpc' = MainAfter("attach")
    /\ UNCHANGED <<opened, polling, cache>>
    /\ UNCHANGED <<putVars, viewVars, pollVars, snoopVars>>
    /\ UNCHANGED <<tstatVars, holdVars, revVars, pubVars>>

\* infinity.Open(), lines 855-858: the link opens, or main panics
MainOpen ==
    /\ mainpc = "open"
    /\ \E ok \in BOOLEAN :
          IF ok THEN opened' = TRUE /\ mainpc' = MainAfter("open")
          ELSE opened' = opened /\ mainpc' = "panicked"
    /\ UNCHANGED <<attached, polling, cache>>
    /\ UNCHANGED <<putVars, viewVars, pollVars, snoopVars>>
    /\ UNCHANGED <<tstatVars, holdVars, revVars, pubVars>>

\* go statePoller(rawMonTable); go statsPoller(), lines 864-865
MainGoPollers ==
    /\ mainpc = "goPollers"
    /\ polling' = TRUE
    /\ mainpc' = MainAfter("goPollers")
    /\ UNCHANGED <<attached, opened, cache>>
    /\ UNCHANGED <<putVars, viewVars, pollVars, snoopVars>>
    /\ UNCHANGED <<tstatVars, holdVars, revVars, pubVars>>

\* the reader of the open link hands a frame to the callbacks registered
MainOnFrame(f) == opened /\ attached /\ OnFrame(f)

---------------------------------------------------------------------------
(* Specifications *)

\* putConfig called by the HTTP handlers, on a bus that accepts every write
InitPut ==
    /\ PutInit
    /\ reads = ReadCfgFailed /\ ViewInit
    /\ PollInit /\ cache = MainCache
    /\ SnoopInit
    /\ MainDone /\ TStatInit /\ PubInit /\ HoldInit /\ RevInit
NextPut == \E c \in PutCalls : PutConfigOn(c[1], c[2][1], c[2][2], "Ok")
SpecPut == InitPut /\ [][NextPut]_vars

\* putConfig on a bus whose writes succeed, time out or are refused
BusCalls ==
    ({"1", "4", "8"} \X ValidZonePairs)
    \cup ({"0"} \X ModePairs)
    \cup ({"1"} \X BadZonePairs)
    \cup ({"0"} \X BadGlobalPairs)
    \cup (BadZones \X {<<"fanMode", "low">>, <<"mode", "heat">>})

InitBus ==
    /\ PutInit
    /\ reads = ReadCfgFailed /\ ViewInit
    /\ PollInit /\ cache = MainCache
    /\ SnoopInit
    /\ MainDone /\ TStatInit /\ PubInit /\ HoldInit /\ RevInit
NextBus == \E c \in BusCalls : PutConfig(c[1], c[2][1], c[2][2])
SpecBus == InitBus /\ [][NextBus]_vars

\* the projections applied to every pair of tables
InitView ==
    /\ PutInit
    /\ reads \in ReadInputs /\ ViewInit
    /\ PollInit /\ cache = MainCache
    /\ SnoopInit
    /\ MainDone /\ TStatInit /\ PubInit /\ HoldInit /\ RevInit
NextView ==
    \/ GetZonesConfig
    \/ \E zi \in -1 .. NumZones : GetZNConfig(zi)
SpecView == InitView /\ [][NextView]_vars

\* the poller running alone
InitPoll ==
    /\ PutInit
    /\ reads = ReadCfgFailed /\ ViewInit
    /\ PollInit /\ cache = MainCache
    /\ SnoopInit
    /\ MainDone /\ TStatInit /\ PubInit /\ HoldInit /\ RevInit
NextPoll ==
    \/ PollReadCfg
    \/ PollReadParams
    \/ PollUpdateTstat
    \/ PollMirrorZone
    \/ PollMirrorGlobal
    \/ PollProbe
    \/ PollSleep
SpecPoll == InitPoll /\ [][NextPoll]_vars

\* the reader activity dispatching frames to the snoops
InitSnoop ==
    /\ PutInit
    /\ reads = ReadCfgFailed /\ ViewInit
    /\ PollInit /\ cache = MainCache
    /\ SnoopInit
    /\ MainDone /\ TStatInit /\ PubInit /\ HoldInit /\ RevInit
NextSnoop == \E f \in SnoopFrames : OnFrame(f)
SpecSnoop == InitSnoop /\ [][NextSnoop]_vars


---------------------------------------------------------------------------
\* the reader activity, the poller and the HTTP handlers side by side
BridgeFrames ==
    {Frame(20481, <<0, 62, 1, 1, 32, 0, 240>>, <<>>),
     Frame(20481, <<0, 62, 2, 4>>, <<>>),
     Frame(16385, <<0, 3, 6, 0, 1, 244>>, <<>>),
     Frame(16385, <<0, 3, 22, 2, 0, 1, 0, 3, 32, 0, 0, 7>>, <<>>),
     Frame(24577, <<0, 3, 25, 15, 255, 3, 3, 3, 3, 3, 3>>, <<>>),
     Frame(24577, <<0, 3, 25, 255, 0, 7, 255, 255, 255, 255, 255>>, <<>>)}
BridgeCfgTables == {MkCfg(2, 1)}
BridgeParamsTables == {MkParams(0, 72, 0, 0)}
BridgeCalls == {<<"2", <<"hold", "true">>>>}
BridgeOutcome == "Refused"

InitBridge ==
    /\ PutInit
    /\ reads = ReadCfgFailed /\ ViewInit
    /\ PollInit /\ cache = MainCache
    /\ SnoopInit
    /\ MainDone /\ TStatInit /\ PubInit /\ HoldInit /\ RevInit
NextBridge ==
    \/ \E f \in BridgeFrames : OnFrame(f)
    \/ PollReadCfgFrom(BridgeCfgTables)
    \/ PollReadParamsFrom(BridgeParamsTables)
    \/ PollUpdateTstat
    \/ PollMirrorZone
    \/ PollMirrorGlobal
    \/ PollProbe
    \/ PollSleep
    \/ \E c \in BridgeCalls : PutConfigOn(c[1], c[2][1], c[2][2], BridgeOutcome)
SpecBridge == InitBridge /\ [][NextBridge]_vars

\* the air handler callback next to the poller
ActionFrames ==
    {Frame(16385, <<0, 3, 6, 0, 1, 244>>, <<>>),
     Frame(16385, <<0, 3, 22, 0, 0, 0, 0, 1, 44, 0, 128, 0>>, <<>>),
     Frame(16385, <<0, 3, 22, 1, 0, 0, 0, 3, 32, 0, 64, 0>>, <<>>),
     Frame(16385, <<0, 3, 22, 2, 0, 1, 0, 3, 32, 0, 0, 7>>, <<>>),
     Frame(16385, <<0, 3, 22, 4, 0, 2, 0, 0, 0, 0, 255, 255>>, <<>>)}

InitAction ==
    /\ PutInit
    /\ reads = ReadCfgFailed /\ ViewInit
    /\ PollInit /\ cache = MainCache
    /\ SnoopInit
    /\ MainDone /\ TStatInit /\ PubInit /\ HoldInit /\ RevInit
NextAction ==
    \/ \E f \in ActionFrames : OnFrame(f)
    \/ PollReadCfgFrom(BridgeCfgTables)
    \/ PollReadParamsFrom(BridgeParamsTables)
    \/ PollUpdateTstat
    \/ PollMirrorZone
    \/ PollMirrorGlobal
    \/ PollProbe
    \/ PollSleep
SpecAction == InitAction /\ [][NextAction]_vars

\* the poller reading a thermostat whose tables change, for ever
InitRepair ==
    /\ PutInit
    /\ reads = ReadCfgFailed /\ ViewInit
    /\ PollInit /\ cache = MainCache
    /\ SnoopInit
    /\ MainDone /\ TStatInit /\ PubInit /\ HoldInit /\ RevInit
NextRepair ==
    \/ TablesChange
    \/ RepairReadCfg
    \/ RepairReadParams
    \/ PollUpdateTstat
    \/ PollMirrorZone
    \/ PollMirrorGlobal
    \/ PollProbe
    \/ PollSleepOn
\* the poller's goroutine keeps being scheduled, and a read that is retried
\* for ever succeeds in the end
SpecRepair ==
    /\ InitRepair /\ [][NextRepair]_vars
    /\ WF_vars(PollUpdateTstat) /\ WF_vars(PollMirrorZone) /\ WF_vars(PollMirrorGlobal)
    /\ WF_vars(PollProbe) /\ WF_vars(PollSleepOn)
    /\ SF_vars(RepairReadCfg /\ reads'.cfgOk)
    /\ SF_vars(RepairReadParams /\ reads'.parOk)

\* the two revisions of the air handler callback on the same frames
InitRevisions ==
    /\ PutInit
    /\ reads = ReadCfgFailed /\ ViewInit
    /\ PollInit /\ cache = MainCache
    /\ SnoopInit
    /\ MainDone /\ TStatInit /\ PubInit /\ HoldInit /\ RevInit
NextRevisions == \E f \in BlowerFrames : OnFrameBoth(f)
SpecRevisions == InitRevisions /\ [][NextRevisions]_vars

\* holdTime applied to every uint16
InitHold ==
    /\ PutInit
    /\ reads = ReadCfgFailed /\ ViewInit
    /\ PollInit /\ cache = MainCache
    /\ SnoopInit
    /\ MainDone /\ TStatInit /\ PubInit /\ RevInit
    /\ minutes \in 0 .. MaxUint16
    /\ held = NoHeld
NextHold == HoldTime
SpecHold == InitHold /\ [][NextHold]_vars

\* the callbacks, the poller and the readers over the pointer-level cache
InitPublish ==
    /\ PutInit
    /\ reads = ReadCfgFailed /\ ViewInit
    /\ PollInit /\ cache = MainCache
    /\ SnoopInit
    /\ MainDone /\ TStatInit /\ PubInit /\ HoldInit /\ RevInit
NextPublish ==
    \/ \E f \in PubFrames : SnoopEnter(f)
    \/ SnoopAssign
    \/ SnoopPublish
    \/ SnoopMirror
    \/ SnoopReturn
    \/ PubPollBuild
    \/ PubPollZones
    \/ PubPollPublish
    \/ PubPollMirror
    \/ \E key \in StructKeys : PubGet(key)
SpecPublish == InitPublish /\ [][NextPublish]_vars

\* main from its first cache update on, the reader and the poller running
\* once main has started them
StartFrames ==
    {Frame(20481, <<0, 62, 1, 1, 32, 0, 240>>, <<>>),
     Frame(20481, <<0, 62, 2, 4>>, <<>>),
     Frame(16385, <<0, 3, 6, 0, 1, 244>>, <<>>),
     Frame(16385, <<0, 3, 22, 2, 0, 1, 0, 3, 32, 0, 0, 7>>, <<>>),
     Frame(24577, <<0, 3, 25, 15, 255, 3, 3, 3, 3, 3, 3>>, <<>>),
     Frame(28673, <<0, 3, 6, 0, 1, 244>>, <<>>)}

InitStart ==
    /\ PutInit
    /\ reads = ReadCfgFailed /\ ViewInit
    /\ PollInit /\ cache = EmptyCache
    /\ SnoopInit
    /\ MainInit /\ TStatInit /\ PubInit /\ HoldInit /\ RevInit
NextStart ==
    \/ MainUpdateBlower
    \/ MainUpdateHeatPump
    \/ MainUpdateDamperPos
    \/ MainAttach
    \/ MainOpen
    \/ MainGoPollers
    \/ \E f \in StartFrames : MainOnFrame(f)
    \/ polling /\ PollReadCfgFrom(BridgeCfgTables)
    \/ polling /\ PollReadParamsFrom(BridgeParamsTables)
    \/ polling /\ PollUpdateTstat
    \/ polling /\ PollMirrorZone
    \/ polling /\ PollMirrorGlobal
    \/ polling /\ PollProbe
    \/ polling /\ PollSleep
SpecStart == InitStart /\ [][NextStart]_vars

---------------------------------------------------------------------------

(* What the callers of putConfig mean by their arguments *)

\* the integer a zone string spells, for the zone strings that spell one
ZoneMeaning ==
    {<<"0", 0>>, <<"1", 1>>, <<"2", 2>>, <<"3", 3>>, <<"4", 4>>, <<"5", 5>>,
     <<"6", 6>>, <<"7", 7>>, <<"8", 8>>, <<"9", 9>>, <<"10", 10>>, <<"08", 8>>,
     <<"+2", 2>>, <<"-0", 0>>, <<"-1", -1>>}
IsInteger(zone) == \E m \in ZoneMeaning : m[1] = zone
ZoneInt(zone) == (CHOOSE m \in ZoneMeaning : m[1] = zone)[2]

\* the setpoint a decimal string spells, for the strings that spell a uint8
DecimalMeaning == {<<"0", 0>>, <<"68", 68>>, <<"74", 74>>, <<"255", 255>>}
IsUint8(value) == \E m \in DecimalMeaning : m[1] = value
Uint8Of(value) == (CHOOSE m \in DecimalMeaning : m[1] = value)[2]

ValidZoneValue(param, value) ==
    CASE param = "fanMode"      -> stringFanModeToRaw(value).ok
      [] param = "heatSetpoint" -> IsUint8(value)
      [] param = "coolSetpoint" -> IsUint8(value)
      [] param = "hold"         -> value \in {"true", "false"}
      [] param = "preset"       -> value \in {"hold", "none"}
      [] OTHER                  -> FALSE

ValidGlobalValue(param, value) == param = "mode" /\ stringModeToRaw(value).ok

CallsZone(c) == c.made /\ IsInteger(c.zone) /\ ZoneInt(c.zone) \in 1 .. 8
CallsGlobal(c) == c.made /\ IsInteger(c.zone) /\ ZoneInt(c.zone) = 0

ValidCall(c) ==
    \/ CallsZone(c) /\ ValidZoneValue(c.param, c.value)
    \/ CallsGlobal(c) /\ ValidGlobalValue(c.param, c.value)

\* the wire ends with what the last call sent
SentLast == Len(sent) <= Len(wire)
            /\ SubSeq(wire, Len(wire) - Len(sent) + 1, Len(wire)) = sent

\* C1: a putConfig call with an invalid zone, parameter or value returns false
\* and hands no write to the bus.
C1_InvalidRejected ==
    (call.made /\ ~ValidCall(call)) => (ret = FALSE /\ sent = <<>> /\ SentLast)

C1_Witness ==
    /\ call = [made |-> TRUE, zone |-> "9", param |-> "fanMode", value |-> "low"]
    /\ ret = FALSE
    /\ wire = <<>>

MaskOf(param) ==
    CASE param = "fanMode"      -> 1
      [] param = "hold"         -> 2
      [] param = "preset"       -> 2
      [] param = "heatSetpoint" -> 4
      [] param = "coolSetpoint" -> 8

\* what a valid zone call puts in the slot of its zone: fan, heat, cool, hold
SlotOf(param, value) ==
    [fan  |-> IF param = "fanMode" THEN stringFanModeToRaw(value).val ELSE 0,
     heat |-> IF param = "heatSetpoint" THEN Uint8Of(value) ELSE 0,
     cool |-> IF param = "coolSetpoint" THEN Uint8Of(value) ELSE 0,
     hold |-> IF <<param, value>> \in {<<"hold", "true">>, <<"preset", "hold">>}
              THEN 1 ELSE 0]

\* the slot of zone index j in a TStatZoneParams payload
SlotAt(p, j) ==
    [fan |-> p.ZFanMode[j], heat |-> p.ZHeatSetpoint[j],
     cool |-> p.ZCoolSetpoint[j], hold |-> Bit(p.ZoneHold, j)]

ZeroSlot == [fan |-> 0, heat |-> 0, cool |-> 0, hold |-> 0]

\* C2: a valid call for zone 1..8 issues exactly one zoned write of
\* TStatZoneParams, zone index zone-1, with the one mask bit of its parameter;
\* the value sits in that zone's slot and every other slot of the payload is zero.
C2_OneZonedWrite ==
    (CallsZone(call) /\ ValidZoneValue(call.param, call.value)) =>
        /\ ret = TRUE
        /\ Len(sent) = 1
        /\ SentLast
        /\ sent[1].op = "WriteTableZ"
        /\ sent[1].table = "TStatZoneParams"
        /\ sent[1].zone = ZoneInt(call.zone) - 1
        /\ sent[1].flags = MaskOf(call.param)
        /\ sent[1].flags \in {1, 2, 4, 8}
        /\ sent[1].params.ZoneHold < Pow2(NumZones)
        /\ \A j \in ZoneIdx :
              /\ SlotAt(sent[1].params, j) =
                    IF j = ZoneInt(call.zone) - 1
                    THEN SlotOf(call.param, call.value) ELSE ZeroSlot
              /\ sent[1].params.ZOvrdDuration[j] = 0
              /\ sent[1].params.ZTargetHumidity[j] = 0
              /\ sent[1].params.ZName[j] = ""

C2_Witness ==
    /\ call = [made |-> TRUE, zone |-> "2", param |-> "heatSetpoint", value |-> "68"]
    /\ ret = TRUE
    /\ Len(wire) = 1
    /\ wire[1].op = "WriteTableZ" /\ wire[1].zone = 1 /\ wire[1].flags = 4
    /\ wire[1].params.ZHeatSetpoint[1] = 68

\* C3: zone 0 recognizes only mode: a valid mode string issues exactly one
\* unzoned write of TStatCurrentParams carrying the raw mode with mask 0x10;
\* any other parameter or mode string fails with no write.
C3_GlobalModeOnly ==
    CallsGlobal(call) =>
        IF ValidGlobalValue(call.param, call.value)
        THEN /\ ret = TRUE
             /\ Len(sent) = 1
             /\ SentLast
             /\ sent[1].op = "WriteTable"
             /\ sent[1].table = "TStatCurrentParams"
             /\ sent[1].flags = 16
             /\ sent[1].params.Mode = stringModeToRaw(call.value).val
             /\ sent[1].params.OutdoorAirTemp = 0
             /\ \A j \in ZoneIdx : /\ sent[1].params.ZCurrentTemp[j] = 0
                                   /\ sent[1].params.ZCurrentHumidity[j] = 0
        ELSE ret = FALSE /\ sent = <<>>

C3_Witness ==
    /\ call = [made |-> TRUE, zone |-> "0", param |-> "mode", value |-> "cool"]
    /\ ret = TRUE
    /\ Len(wire) = 1
    /\ wire[1].op = "WriteTable" /\ wire[1].flags = 16
    /\ wire[1].params.Mode = stringModeToRaw("cool").val

\* C4: hold=true for zone z sends ZoneHold with only bit z-1 set, hold=false
\* sends ZoneHold = 0, both with mask 0x02 for zone index z-1; preset=hold and
\* preset=none send the writes of hold=true and hold=false; no write on the
\* wire has the hold bit of another zone set.
C4_HoldBit ==
    /\ (CallsZone(call) /\ call.param \in {"hold", "preset"}
          /\ ValidZoneValue(call.param, call.value)) =>
            /\ Len(sent) = 1
            /\ sent[1].op = "WriteTableZ"
            /\ sent[1].zone = ZoneInt(call.zone) - 1
            /\ sent[1].flags = 2
            /\ sent[1].params.ZoneHold =
                  IF call.value \in {"true", "hold"}
                  THEN Pow2(ZoneInt(call.zone) - 1) ELSE 0
            /\ call.param = "preset" =>
                  sent = putConfig(call.zone, "hold",
                                   IF call.value = "hold" THEN "true" ELSE "false").writes
    /\ \A i \in 1 .. Len(wire) :
          wire[i].op = "WriteTableZ" =>
              \A j \in 0 .. 15 : j # wire[i].zone => Bit(wire[i].params.ZoneHold, j) = 0

C4_Witness ==
    /\ call = [made |-> TRUE, zone |-> "8", param |-> "preset", value |-> "hold"]
    /\ Len(wire) = 1
    /\ wire[1].zone = 7 /\ wire[1].flags = 2
    /\ wire[1].params.ZoneHold = 128


---------------------------------------------------------------------------
(* The projections *)

ZonesViewed == view.fn = "getZonesConfig" /\ view.res.ok
ZoneViewed  == view.fn = "getZNConfig" /\ view.res.ok

\* the zone indexes a ZonesView lists
Listed(zv) == {zv.Zones[k].ZoneNumber - 1 : k \in 1 .. Len(zv.Zones)}

\* C5: zone i is in the ZonesView built by getZonesConfig iff its current
\* temperature is neither 0 nor 255 (0 < ZCurrentTemp[i] < 255).
C5_ActiveIffTemp ==
    ZonesViewed =>
        \A i \in ZoneIdx :
            (i \in Listed(view.res.val)) <=> (reads.params.ZCurrentTemp[i] \in 1 .. 254)

C5_Witness ==
    /\ ZonesViewed
    /\ \E i, j, k, l \in ZoneIdx :
          /\ reads.params.ZCurrentTemp[i] = 1   /\ i \in Listed(view.res.val)
          /\ reads.params.ZCurrentTemp[j] = 254 /\ j \in Listed(view.res.val)
          /\ reads.params.ZCurrentTemp[k] = 0   /\ k \notin Listed(view.res.val)
          /\ reads.params.ZCurrentTemp[l] = 255 /\ l \notin Listed(view.res.val)

\* C7: the zone list is compacted without renumbering: as many entries as
\* active zones, zone numbers in 1..8 and strictly increasing, and the fields of
\* each entry read from the slots of its own zone index.
C7_CompactedNotRenumbered ==
    ZonesViewed =>
        LET zs == view.res.val.Zones
        IN  /\ Len(zs) = Cardinality({i \in ZoneIdx : reads.params.ZCurrentTemp[i] \in 1 .. 254})
            /\ \A k \in 1 .. Len(zs) :
                  LET i == zs[k].ZoneNumber - 1
                  IN  /\ zs[k].ZoneNumber \in 1 .. 8
                      /\ k > 1 => zs[k - 1].ZoneNumber < zs[k].ZoneNumber
                      /\ reads.params.ZCurrentTemp[i] \in 1 .. 254
                      /\ zs[k].CurrentTemp = reads.params.ZCurrentTemp[i]
                      /\ zs[k].CurrentHumidity = reads.params.ZCurrentHumidity[i]
                      /\ zs[k].HeatSetpoint = reads.cfg.ZHeatSetpoint[i]
                      /\ zs[k].CoolSetpoint = reads.cfg.ZCoolSetpoint[i]
                      /\ zs[k].FanMode = rawFanModeToString(reads.cfg.ZFanMode[i])
                      /\ zs[k].OvrdDurationMins = reads.cfg.ZOvrdDuration[i]
                      /\ zs[k].OvrdDuration = holdTime(reads.cfg.ZOvrdDuration[i])
                      /\ zs[k].ZoneName = Trim(reads.cfg.ZName[i])

C7_Witness ==
    /\ ZonesViewed
    /\ Len(view.res.val.Zones) = 2
    /\ view.res.val.Zones[1].ZoneNumber = 5
    /\ view.res.val.Zones[2].ZoneNumber = 8
    /\ view.res.val.Zones[2].HeatSetpoint = reads.cfg.ZHeatSetpoint[7]
    /\ view.res.val.Zones[2].HeatSetpoint # reads.cfg.ZHeatSetpoint[1]

\* C8: in every zone record of getZonesConfig and getZNConfig, Hold is the bit
\* of that zone in the ZoneHold bitmap read, and preset is "hold" when the bit is
\* set and "none" when it is clear.
C8_PresetIffHoldBit ==
    /\ ZonesViewed =>
          \A k \in 1 .. Len(view.res.val.Zones) :
              LET z == view.res.val.Zones[k]
                  b == Bit(reads.cfg.ZoneHold, z.ZoneNumber - 1) = 1
              IN  z.Hold = b /\ z.Preset = (IF b THEN "hold" ELSE "none")
    /\ ZoneViewed =>
          LET z == view.res.val
              b == Bit(reads.cfg.ZoneHold, view.zi) = 1
          IN  z.Hold = b /\ z.Preset = (IF b THEN "hold" ELSE "none")

C8_Witness ==
    /\ ZonesViewed
    /\ reads.cfg.ZoneHold = 85
    /\ \E k \in 1 .. Len(view.res.val.Zones) :
          /\ k > 1
          /\ view.res.val.Zones[k].Preset = "hold"
          /\ view.res.val.Zones[k - 1].Preset = "none"
          /\ view.res.val.Zones[k - 1].Hold = FALSE


---------------------------------------------------------------------------
(* The poller *)

\* C6 as stated: the ZonesView under "tstat" lists only zones whose current
\* temperature is strictly between 1 and 254.
C6_Original ==
    CacheHas(cache, "tstat") =>
        \A k \in 1 .. Len(cache["tstat"].Zones) :
            /\ cache["tstat"].Zones[k].CurrentTemp > 1
            /\ cache["tstat"].Zones[k].CurrentTemp < 254

\* C6 amended: the ZonesView the poller writes under "tstat" lists only zones
\* whose current temperature is strictly between 0 and 255, that is in 1..254.
C6_OnlyActiveZones ==
    CacheHas(cache, "tstat") =>
        \A k \in 1 .. Len(cache["tstat"].Zones) :
            /\ cache["tstat"].Zones[k].CurrentTemp > 0
            /\ cache["tstat"].Zones[k].CurrentTemp < 255

C6_Witness ==
    /\ CacheHas(cache, "tstat")
    /\ \E k, l \in 1 .. Len(cache["tstat"].Zones) :
          /\ cache["tstat"].Zones[k].CurrentTemp = 1
          /\ cache["tstat"].Zones[l].CurrentTemp = 254

\* the current tick has had a read fail
TickFailed == ~c1.ok /\ pollpc \notin {"readCfg", "readParams"}

\* C9: if either table read of a tick fails, the tick writes no cache key (the
\* whole cache stays as the last successful tick left it) and the poller goes
\* on, through the probe and the sleep, to its next tick.
C9_FailedTickSkipped ==
    [][/\ pollpc \in {"readCfg", "readParams"} =>
            /\ cache' = cache
            /\ (~reads'.cfgOk \/ ~reads'.parOk) =>
                  (pollpc' = "readParams" /\ reads'.cfgOk) \/ (TickFailed' /\ pollpc' = "probe")
       /\ TickFailed =>
            /\ cache' = cache
            /\ pollpc = "probe" => pollpc' = "sleep"
            /\ pollpc = "sleep" => (pollpc' = "readCfg" /\ ticks' = ticks + 1)
            /\ pollpc \in {"probe", "sleep"}
      ]_vars

C9_Witness ==
    /\ ticks >= 1
    /\ pollpc = "sleep"
    /\ TickFailed
    /\ reads.cfgOk /\ ~reads.parOk
    /\ CacheHas(cache, "tstat")
    /\ CacheHas(cache, "mqtt/infinitive/mode")
    /\ cache["mqtt/infinitive/mode"] = cache["tstat"].Mode

---------------------------------------------------------------------------
(* The snoops *)

DamperKeyName ==
    <<"mqtt/infinitive/zone/1/damperPos", "mqtt/infinitive/zone/2/damperPos",
      "mqtt/infinitive/zone/3/damperPos", "mqtt/infinitive/zone/4/damperPos",
      "mqtt/infinitive/zone/5/damperPos", "mqtt/infinitive/zone/6/damperPos",
      "mqtt/infinitive/zone/7/damperPos", "mqtt/infinitive/zone/8/damperPos">>

\* the last frame came from a zone controller and carries the prefix 00 03 19
\* and eight damper bytes
DamperFrameSeen ==
    /\ frames > 0
    /\ lastFrame.src >= 24576 /\ lastFrame.src <= 25087
    /\ Len(lastFrame.data) >= 11
    /\ SubSeq(lastFrame.data, 1, 3) = <<0, 3, 25>>

\* C10: a damper byte 0xFF for zone i leaves the cached damper position of
\* zone i and its mirror key unchanged while the other zones of the frame are
\* updated; a byte 0x0F is mirrored as 100 and a byte 0x00 as 0.
C10_DamperUnknownKept ==
    DamperFrameSeen =>
        /\ ~crashed
        /\ \A zi \in ZoneIdx :
              LET b   == lastFrame.data[4 + zi]
                  key == DamperKeyName[zi + 1]
              IN  IF b = 255
                  THEN /\ cache["damperpos"].DamperPos[zi] = pre["damperpos"].DamperPos[zi]
                       /\ (key \in DOMAIN cache) <=> (key \in DOMAIN pre)
                       /\ key \in DOMAIN pre => cache[key] = pre[key]
                  ELSE /\ cache["damperpos"].DamperPos[zi] = b
                       /\ key \in DOMAIN cache
                       /\ b = 15 => cache[key] = 100
                       /\ b = 0 => cache[key] = 0

C10_Witness ==
    /\ DamperFrameSeen
    /\ \E i, j \in ZoneIdx :
          /\ lastFrame.data[4 + i] = 255
          /\ pre["damperpos"].DamperPos[i] = 15
          /\ cache["damperpos"].DamperPos[i] = 15
          /\ cache[DamperKeyName[i + 1]] = 100
          /\ lastFrame.data[4 + j] = 0
          /\ pre["damperpos"].DamperPos[j] = 15
          /\ cache["damperpos"].DamperPos[j] = 0
          /\ cache[DamperKeyName[j + 1]] = 0

\* C11: after any sequence of zone-damper frames every cached damper position
\* is in 0..15 and every mirrored zone/<N>/damperPos percent is in 0..100.
C11_DamperInRange ==
    /\ \A zi \in ZoneIdx : cache["damperpos"].DamperPos[zi] \in 0 .. 15
    /\ \A zi \in ZoneIdx :
          CacheHas(cache, DamperKeyName[zi + 1]) =>
              cache[DamperKeyName[zi + 1]] \in 0 .. 100

---------------------------------------------------------------------------
(* Publication *)

SnoopedKeys == {"blower", "heatpump", "damperpos"}

\* the callback at work still has a field of its local struct to assign
SbAssigning == \E i \in 1 .. Len(sb.todo) : sb.todo[i].op = "set"

\* C12: a reader never sees a partly updated struct.  The struct behind each
\* cached pointer is the one stored with it and is never changed afterwards,
\* also not once a reader holds it; a struct still being filled in by a
\* callback or by the poller is not reachable from the cache; the struct under
\* a snooped key is the one from before the last frame or its complete decode,
\* and the one under "tstat" is the complete projection of a tick's reads.
C12_NoPartialValue ==
    /\ \A k \in DOMAIN ptr : heap[ptr[k]] = cache[k]
    /\ obs # NoObs => heap[obs.addr] = obs.val
    /\ (sb.pc = "run" /\ SbAssigning) => \A k \in DOMAIN ptr : ptr[k] # sb.addr
    /\ pb.pc \in {"zones", "update"} => \A k \in DOMAIN ptr : ptr[k] # pb.addr
    /\ frames > 0 =>
          \A k \in SnoopedKeys :
              heap[ptr[k]] \in {pre[k], Dispatch(pre, lastFrame).cache[k]}
    /\ CacheHas(ptr, "tstat") =>
          \E r \in PubReads : heap[ptr["tstat"]] = getZonesConfig(r).val

\* a reader holds the air handler struct it got earlier while the cache already
\* points at the struct of a later frame and a callback is half way through
\* the next one
C12_Witness ==
    /\ obs.key = "blower" /\ obs.addr # ptr["blower"] /\ obs.val # heap[ptr["blower"]]
    /\ sb.pc = "run" /\ sb.key = "blower" /\ SbAssigning
    /\ heap[sb.addr] # heap[ptr["blower"]]
    /\ heap[sb.addr] # Dispatch(pre, lastFrame).cache["blower"]

---------------------------------------------------------------------------
(* holdTime *)

\* the position of the colon in s, 0 if there is none
ColonAt(s) ==
    IF \E i \in 1 .. Len(s) : CharAt(s, i) = ":"
    THEN CHOOSE i \in 1 .. Len(s) : CharAt(s, i) = ":"
    ELSE 0

\* C13: holdTime(m) is "" for m = 0 and otherwise hours:minutes with hours =
\* m div 60 written without leading zero and minutes = m mod 60 written with
\* exactly two digits, for every 16-bit m; 75 gives "1:15", 600 gives "10:00"
\* and a value under 60 gives "0:MM".
C13_HoldTimeFormat ==
    held.done =>
        IF minutes = 0 THEN held.s = ""
        ELSE LET p == ColonAt(held.s)
                 h == SubSeq(held.s, 1, p - 1)
                 m == SubSeq(held.s, p + 1, Len(held.s))
             IN  /\ p > 1
                 /\ AllDigits(h) /\ DecVal(h) = minutes \div 60
                 /\ Len(h) = 1 \/ CharAt(h, 1) # "0"
                 /\ Len(m) = 2 /\ AllDigits(m) /\ DecVal(m) = minutes % 60
                 /\ minutes = 75 => held.s = "1:15"
                 /\ minutes = 600 => held.s = "10:00"
                 /\ minutes < 60 => SubSeq(held.s, 1, 2) = "0:"

C13_Witness ==
    /\ held.done
    /\ minutes = 65535
    /\ held.s = "1092:15"

---------------------------------------------------------------------------
(* The heat pump and air handler callbacks *)

\* the last frame came from the source range lo..hi with the given prefix and
\* at least n bytes after it, and its callback returned
FrameSeen(lo, hi, prefix, n) ==
    /\ frames > 0 /\ ~crashed
    /\ lastFrame.src >= lo /\ lastFrame.src <= hi
    /\ Len(lastFrame.data) >= 3 + n
    /\ SubSeq(lastFrame.data, 1, 3) = prefix

\* byte i (from 0) after the prefix of the last frame
After(i) == lastFrame.data[4 + i]

\* the fraction q is u / 16
IsSixteenth(q, u) == q.num * 16 = u * q.den

\* C14: in the heat pump callback a frame 00 3E 01 sets the outside
\* temperature to u16_be(bytes 0-1)/16 and the coil temperature to
\* u16_be(bytes 2-3)/16 and leaves Stage; a frame 00 3E 02 sets Stage to
\* byte 0 >> 1 and leaves both temperatures; any other prefix changes no key.
C14_HeatPumpDecode ==
    /\ FrameSeen(20480, 20991, <<0, 62, 1>>, 4) =>
          /\ IsSixteenth(cache["heatpump"].OutsideTemp, After(0) * 256 + After(1))
          /\ IsSixteenth(cache["heatpump"].CoilTemp, After(2) * 256 + After(3))
          /\ cache["heatpump"].Stage = pre["heatpump"].Stage
    /\ FrameSeen(20480, 20991, <<0, 62, 2>>, 1) =>
          /\ cache["heatpump"].Stage = After(0) \div 2
          /\ cache["heatpump"].OutsideTemp = pre["heatpump"].OutsideTemp
          /\ cache["heatpump"].CoilTemp = pre["heatpump"].CoilTemp
    /\ (/\ frames > 0 /\ ~crashed
        /\ lastFrame.src >= 20480 /\ lastFrame.src <= 20991
        /\ Len(lastFrame.data) >= 3
        /\ SubSeq(lastFrame.data, 1, 3) \notin {<<0, 62, 1>>, <<0, 62, 2>>}) =>
          cache = pre

C14_Witness ==
    /\ FrameSeen(20480, 20991, <<0, 62, 1>>, 4)
    /\ pre["heatpump"] = [CoilTemp |-> Rat(0, 1), OutsideTemp |-> Rat(0, 1), Stage |-> 2]
    /\ cache["heatpump"] = [CoilTemp |-> Rat(15, 1), OutsideTemp |-> Rat(18, 1), Stage |-> 2]

ActionKey == "mqtt/infinitive/action"

\* the air handler status frame 00 03 16 was the last frame
StatusSeen == FrameSeen(16384, 17151, <<0, 3, 22>>, 9)

\* C15: for the air handler frame 00 03 16 the action is "cooling" when
\* byte2 & 0x03 is non-zero, else "heating" when byte0 & 0x03 is non-zero,
\* else "idle", and electric heat is true iff byte0 & 0x03 is non-zero; the
\* key mqtt/infinitive/action changes only in a step that dispatches such a
\* frame, never in a step of the poller.
C15_ActionCoolingFirst ==
    /\ [](StatusSeen =>
            /\ cache["blower"].Action =
                  (IF After(2) % 4 # 0 THEN "cooling"
                   ELSE IF After(0) % 4 # 0 THEN "heating" ELSE "idle")
            /\ cache["blower"].ElecHeat = (After(0) % 4 # 0)
            /\ cache[ActionKey] = cache["blower"].Action)
    /\ [][(\/ CacheHas(cache', ActionKey) # CacheHas(cache, ActionKey)
           \/ (CacheHas(cache, ActionKey) /\ cache'[ActionKey] # cache[ActionKey]))
          => (/\ frames' = frames + 1
              /\ pollVars' = pollVars
              /\ lastFrame'.src >= 16384 /\ lastFrame'.src <= 17151
              /\ SubSeq(lastFrame'.data, 1, 3) = <<0, 3, 22>>)]_vars

\* both bit groups set: cooling together with electric heat, after the poller
\* has mirrored a tick
C15_Witness ==
    /\ StatusSeen
    /\ After(0) % 4 # 0 /\ After(2) % 4 # 0
    /\ cache["blower"].Action = "cooling" /\ cache["blower"].ElecHeat
    /\ cache[ActionKey] = "cooling"
    /\ CacheHas(pre, ActionKey) /\ pre[ActionKey] = "heating"
    /\ CacheHas(cache, "mqtt/infinitive/mode")
    /\ pollpc = "sleep"

---------------------------------------------------------------------------
(* Frame order *)

\* frame f comes from the source range lo..hi with the given prefix
FrameIs(f, lo, hi, prefix) ==
    /\ f.src >= lo /\ f.src <= hi
    /\ Len(f.data) >= 3
    /\ SubSeq(f.data, 1, 3) = prefix

\* byte i (from 0) after the prefix of frame f
B(f, i) == f.data[4 + i]

NotSet == [set |-> FALSE, value |-> 0]
Sets(v) == [set |-> TRUE, value |-> v]

\* whether frame f sets the named field of the heat pump or air handler
\* struct, and the value it carries for it
CarriedField(f, field) ==
    IF FrameIs(f, 20480, 20991, <<0, 62, 1>>)
    THEN IF field = "OutsideTemp" THEN Sets(Rat(B(f, 0) * 256 + B(f, 1), 16))
         ELSE IF field = "CoilTemp" THEN Sets(Rat(B(f, 2) * 256 + B(f, 3), 16))
         ELSE NotSet
    ELSE IF FrameIs(f, 20480, 20991, <<0, 62, 2>>)
    THEN IF field = "Stage" THEN Sets(B(f, 0) \div 2) ELSE NotSet
    ELSE IF FrameIs(f, 16384, 17151, <<0, 3, 6>>)
    THEN IF field = "BlowerRPM" THEN Sets(B(f, 1) * 256 + B(f, 2)) ELSE NotSet
    ELSE IF FrameIs(f, 16384, 17151, <<0, 3, 22>>)
    THEN IF field = "HeatStage" THEN Sets(B(f, 0))
         ELSE IF field = "AirFlowCFM" THEN Sets(B(f, 4) * 256 + B(f, 5))
         ELSE IF field = "StaticPressure"
         THEN Sets(StaticPressureOf(B(f, 7) * 256 + B(f, 8)))
         ELSE IF field = "ElecHeat" THEN Sets(B(f, 0) % 4 # 0)
         ELSE IF field = "Action"
         THEN Sets(IF B(f, 2) % 4 # 0 THEN "cooling"
                   ELSE IF B(f, 0) % 4 # 0 THEN "heating" ELSE "idle")
         ELSE NotSet
    ELSE NotSet

\* whether frame f sets the damper position of zone index zi, and to what
CarriedDamper(f, zi) ==
    IF FrameIs(f, 24576, 25087, <<0, 3, 25>>) /\ B(f, zi) # 255
    THEN Sets(B(f, zi)) ELSE NotSet

\* the value carried by the most recent frame of h that set the field
RECURSIVE LastField(_, _, _)
LastField(h, field, zero) ==
    IF h = <<>> THEN zero
    ELSE IF CarriedField(h[Len(h)], field).set THEN CarriedField(h[Len(h)], field).value
    ELSE LastField(SubSeq(h, 1, Len(h) - 1), field, zero)

RECURSIVE LastDamper(_, _)
LastDamper(h, zi) ==
    IF h = <<>> THEN 0
    ELSE IF CarriedDamper(h[Len(h)], zi).set THEN CarriedDamper(h[Len(h)], zi).value
    ELSE LastDamper(SubSeq(h, 1, Len(h) - 1), zi)

\* C16: after any sequence of frames, whatever the poller and putConfig did in
\* between, each field of the cached "heatpump", "blower" and "damperpos"
\* values is the value carried by the most recent frame that set it (the zero
\* value of main if none did).
C16_FrameOrder ==
    /\ \A field \in {"CoilTemp", "OutsideTemp", "Stage"} :
          cache["heatpump"][field] = LastField(hist, field, ZeroHeatPump[field])
    /\ \A field \in {"BlowerRPM", "AirFlowCFM", "StaticPressure", "HeatStage",
                     "ElecHeat", "Action"} :
          cache["blower"][field] = LastField(hist, field, ZeroAirHandler[field])
    /\ \A zi \in ZoneIdx : cache["damperpos"].DamperPos[zi] = LastDamper(hist, zi)

\* two frames have set the damper of zone 3, the later value is cached, and
\* the damper of zone 1, set by the first frame only, is still there; the
\* poller has published a tick and putConfig has been called meanwhile
C16_Witness ==
    /\ Len(hist) = 2
    /\ CarriedDamper(hist[1], 2).set /\ CarriedDamper(hist[2], 2).set
    /\ CarriedDamper(hist[1], 2).value # CarriedDamper(hist[2], 2).value
    /\ cache["damperpos"].DamperPos[2] = CarriedDamper(hist[2], 2).value
    /\ CarriedDamper(hist[1], 0).set /\ ~CarriedDamper(hist[2], 0).set
    /\ cache["damperpos"].DamperPos[0] = 15
    /\ CacheHas(cache, "tstat")
    /\ call.made /\ Len(wire) = 1

---------------------------------------------------------------------------
(* The poller, key by key *)

\* C17: a successful tick updates "tstat" first, in a step that changes no
\* other key, and the flat mirror keys after it, in steps that leave "tstat"
\* alone: the tick is not atomic across keys, and a reader can find "tstat"
\* holding the new tick's view while mqtt/infinitive/mode still holds the
\* previous tick's value.
C17_TstatBeforeMirrors ==
    [][/\ pollpc = "updTstat" =>
            /\ cache'["tstat"] = c1.val
            /\ DOMAIN cache' = DOMAIN cache \cup {"tstat"}
            /\ \A k \in DOMAIN cache \ {"tstat"} : cache'[k] = cache[k]
            /\ pollpc' = "mirror"
       /\ pollpc = "mirror" =>
            /\ cache["tstat"] = c1.val
            /\ cache'["tstat"] = cache["tstat"]
      ]_vars

C17_Witness ==
    /\ ticks >= 1
    /\ pollpc = "mirror"
    /\ cache["tstat"] = c1.val
    /\ CacheHas(cache, "mqtt/infinitive/mode")
    /\ cache["mqtt/infinitive/mode"] # cache["tstat"].Mode
    /\ cache["tstat"].Mode = "auto"
    /\ cache["mqtt/infinitive/mode"] = "heat"

---------------------------------------------------------------------------
(* Repair by a later poll *)

\* the view of the tables t
ViewOf(t) == getZonesConfig(ReadOk(t.cfg, t.params)).val

\* "tstat" shows the tables t
Reflected(t) == CacheHas(cache, "tstat") /\ cache["tstat"] = ViewOf(t)

\* C18: the poller never stops, also not after a failed tick; a tick whose
\* two reads succeed replaces "tstat" by the projection of what it read; and,
\* with a poller that keeps running and reads that succeed in the end, tables
\* that stay as they are end up shown by "tstat".
C18_RepairedByLaterPoll ==
    /\ []<>(pollpc = "readCfg")
    /\ [][(pollpc = "updTstat" /\ pollpc' # pollpc) =>
             (reads.cfgOk /\ reads.parOk /\ cache'["tstat"] = getZonesConfig(reads).val)]_vars
    /\ \A t \in RepairTables : (tables = t) ~> (tables # t \/ Reflected(t))

\* the first tick failed (no mirror key was ever written), the tables have
\* changed, and the second tick has put the new tables' view under "tstat"
C18_Witness ==
    /\ ticks = 1
    /\ changes >= 1
    /\ pollpc = "mirror"
    /\ ~CacheHas(cache, "mqtt/infinitive/mode")
    /\ Reflected(tables)
    /\ Len(cache["tstat"].Zones) > 0

---------------------------------------------------------------------------
(* The two revisions of the blower decode *)

\* the last frame is a blower frame 00 03 06 long enough for both revisions
BlowerSeen ==
    /\ frames > 0
    /\ FrameIs(lastFrame, 16384, 17151, <<0, 3, 6>>)
    /\ Len(lastFrame.data) >= 3 + 5

\* C19: for every blower frame 00 03 06 long enough for both, the earlier
\* revision (data[1:5]) and the later one (data[1:3]) store the same
\* BlowerRPM, the big-endian 16-bit value of bytes 1-2 after the prefix, and
\* both leave the other air handler fields as they were.
C19_BlowerRevisionsAgree ==
    BlowerSeen =>
        /\ ~crashed /\ ~early.crashed
        /\ cache["blower"].BlowerRPM = After(1) * 256 + After(2)
        /\ early.cache["blower"].BlowerRPM = cache["blower"].BlowerRPM
        /\ \A field \in {"AirFlowCFM", "StaticPressure", "HeatStage", "ElecHeat", "Action"} :
              cache["blower"][field] = pre["blower"][field]
        /\ \A field \in {"AirFlowCFM", "ElecHeat"} :
              early.cache["blower"][field] = early.pre["blower"][field]

\* a blower frame with two further bytes behind bytes 1-2, after a status
\* frame that set the other fields
C19_Witness ==
    /\ BlowerSeen
    /\ After(1) = 1 /\ After(2) = 244 /\ After(3) = 7 /\ After(4) = 9
    /\ cache["blower"].BlowerRPM = 500
    /\ early.cache["blower"].BlowerRPM = 500
    /\ early.cache["blower"].AirFlowCFM = 800 /\ early.cache["blower"].ElecHeat
    /\ cache["blower"].AirFlowCFM = 800 /\ cache["blower"].Action = "heating"

---------------------------------------------------------------------------
(* Short frames *)

\* the bytes the decoder matching frame f reads after the prefix
BytesRead(f) ==
    IF FrameIs(f, 20480, 20991, <<0, 62, 1>>) THEN 4
    ELSE IF FrameIs(f, 20480, 20991, <<0, 62, 2>>) THEN 1
    ELSE IF FrameIs(f, 16384, 17151, <<0, 3, 6>>) THEN 3
    ELSE IF FrameIs(f, 16384, 17151, <<0, 3, 22>>) THEN 9
    ELSE IF FrameIs(f, 24576, 25087, <<0, 3, 25>>) THEN 8
    ELSE 0

Snooped(f) ==
    \/ f.src >= 20480 /\ f.src <= 20991
    \/ f.src >= 16384 /\ f.src <= 17151
    \/ f.src >= 24576 /\ f.src <= 25087

TooShort(f) == Len(f.data) < 3 + BytesRead(f)

\* C20: for every frame from a snooped source, whatever its payload length,
\* the callback returns normally, and a frame too short to decode leaves the
\* cache unchanged.
C20_ShortFramesHarmless ==
    (frames > 0 /\ Snooped(lastFrame)) =>
        /\ ~crashed
        /\ TooShort(lastFrame) => cache = pre


\* what the bus reported for the writes of the last call
LastAcks == SubSeq(acks, Len(acks) - Len(sent) + 1, Len(acks))

\* C21: the result of putConfig depends only on its arguments: it is true for
\* every recognized zone/param/value combination whatever the bus write
\* reported (a timeout or a refusal does not show in the result), and false
\* only for invalid arguments.
C21_ResultFromArguments ==
    call.made =>
        /\ ret = ValidCall(call)
        /\ Len(acks) = Len(wire)
        /\ \A i \in 1 .. Len(LastAcks) :
              LastAcks[i] \in WriteOutcomes /\ ret = TRUE

\* a mode change whose bus write timed out has returned true
C21_Witness ==
    /\ call = [made |-> TRUE, zone |-> "0", param |-> "mode", value |-> "cool"]
    /\ Len(sent) = 1 /\ sent[1].op = "WriteTable"
    /\ LastAcks = <<"Timeout">>
    /\ ret = TRUE


IsAirHandler(v) == DOMAIN v = DOMAIN ZeroAirHandler
IsHeatPump(v) == DOMAIN v = DOMAIN ZeroHeatPump
IsDamperPosition(v) == DOMAIN v = DOMAIN ZeroDamperPosition

\* the three typed keys are in cache c, each with a struct of its type
TypedKeys(c) ==
    /\ CacheHas(c, "blower") /\ IsAirHandler(c["blower"])
    /\ CacheHas(c, "heatpump") /\ IsHeatPump(c["heatpump"])
    /\ CacheHas(c, "damperpos") /\ IsDamperPosition(c["damperpos"])

\* the typed key of the callback that frame f goes to is in cache c
KeyFound(c, f) ==
    /\ (f.src >= 20480 /\ f.src <= 20991) =>
          CacheHas(c, "heatpump") /\ IsHeatPump(c["heatpump"])
    /\ (f.src >= 16384 /\ f.src <= 17151) =>
          CacheHas(c, "blower") /\ IsAirHandler(c["blower"])
    /\ (f.src >= 24576 /\ f.src <= 25087) =>
          CacheHas(c, "damperpos") /\ IsDamperPosition(c["damperpos"])

\* C22: main writes the typed keys before it attaches the snoops, attaches
\* the snoops before the link is open, and starts the pollers only after a
\* successful open; so whenever a snoop callback has run, it found its typed
\* key with the expected type and did not take the branch that decodes nothing.
C22_SnoopsFindTheirState ==
    /\ attached => TypedKeys(cache)
    /\ opened => attached
    /\ polling => opened
    /\ (pollpc # "readCfg" \/ ticks > 0) => polling
    /\ mainpc = "panicked" => ~opened /\ ~polling /\ frames = 0
    /\ (frames > 0 /\ Snooped(lastFrame)) =>
          /\ opened /\ attached
          /\ KeyFound(pre, lastFrame)
          /\ getHeatPump(pre).ok /\ getAirHandler(pre).ok /\ getDamperPosition(pre).ok

\* a damper frame has been decoded, and a heat pump frame before it, while
\* main was still about to start the pollers
C22_Witness ==
    /\ mainpc = "goPollers" /\ ~polling
    /\ Len(hist) = 2
    /\ hist[1].src = 20481 /\ hist[2].src = 24577
    /\ cache["damperpos"].DamperPos[0] = 15
    /\ cache["heatpump"] # ZeroHeatPump

=============================================================================
